---- MODULE Spec2Model ----
(***************************************************************************)
(* Model of the query server's process-wide caches (server-core/src/lib.rs)*)
(*                                                                         *)
(*   - GeneratedFilesCollection: the generated-file cache, with its two    *)
(*     operations purge_old_if_too_big and add_file, driven the way the    *)
(*     two registering handlers drive it (graph generation in              *)
(*     get_allocation_groups, and handler_execute_script).                 *)
(*                                                                         *)
(*   - State.allocation_group_cache: the LRU of built allocation groups,   *)
(*     driven by concurrent handler_allocation_groups calls, with the      *)
(*     filter lowering of filter.rs and AllocationGroups::new.             *)
(*                                                                         *)
(*   - filter.rs: prepare_filter, prepare_backtrace_filter, try_match and  *)
(*     match_backtrace with its two per-request caches.                    *)
(*                                                                         *)
(*   - get_fragmentation_timeline: the pass over the operation stream.     *)
(*                                                                         *)
(* Sizes are in bytes, creation instants are ticks of a monotonic clock.   *)
(***************************************************************************)
EXTENDS Integers, Sequences, FiniteSets, TLC

VARIABLES
    by_hash,        \* GeneratedFilesCollection.by_hash : hash -> GeneratedFile
    total_size,     \* GeneratedFilesCollection.total_size
    gen_lock,       \* what holds State.generated_files' mutex: "free", "graph", "script"
    run_files,      \* add_file calls made under the current lock acquisition
    run_instant,    \* creation instant of the entry the lock holder built last
    clock,          \* one-MiB scenario: the value Instant::now() returned last
    ties,           \* one-MiB scenario: how often Instant::now() did not advance
    last_op,        \* history: the last operation run on the collection
    since_purge,    \* history: bytes handed to add_file since the last purge returned
    max_evicted,    \* history: latest creation instant of an evicted entry, -1 if none
    cache,          \* State.allocation_group_cache: entries, most recently used first
    gpc,            \* per handler thread of allocation_groups: "idle" or "build"
    greq,           \* per handler thread: the request it is building groups for
    cache_op,       \* history: the last operation run on the group cache
    recent,         \* history: the keys used so far, the most recently used first
    new_input,      \* AllocationGroups::new alone: its input
    new_output,     \* AllocationGroups::new alone: the value it returned
    new_again,      \* AllocationGroups::new alone: the value a second call returned
    sort_matched,   \* sorting alone: the ids the request's filter matched
    sort_key,       \* sorting alone: the request's sort_by
    sort_asc,       \* sorting alone: the groups installed for order Asc
    sort_dsc,       \* sorting alone: the groups installed for order Dsc
    flt_filter,     \* filter preparation alone: the wire filter of the request
    flt_custom,     \* filter preparation alone: the wire custom filter
    flt_prepared,   \* what prepare_filter returned, with the script engine runs it made
    flt_backtrace,  \* what prepare_backtrace_filter returned for the same regex fields
    flt_response,   \* the error response of the handler, if it made one
    flt_match,      \* the last AllocationFilter::try_match call and what it did
    bt_filter,      \* handler_backtraces: the prepared BacktraceFilter
    positive_cache, \* handler_backtraces: positive_cache, FrameId -> bool
    negative_cache, \* handler_backtraces: negative_cache, FrameId -> bool
    bt_evals,       \* history: regex.is_match calls made so far in the request
    bt_scanned,     \* history: the frame ids of the backtraces scanned so far
    bt_calls,       \* history: match_backtrace calls made so far
    bt_last,        \* history: the last match_backtrace call and its result
    address_map,    \* get_fragmentation_timeline: address_map, address -> count
    current_address_min,        \* get_fragmentation_timeline: current_address_min
    current_address_max,        \* get_fragmentation_timeline: current_address_max
    current_used_address_space, \* get_fragmentation_timeline: current_used_address_space
    frag_x,         \* get_fragmentation_timeline: x, the second of the last point
    xs,             \* get_fragmentation_timeline: xs
    fragmentation,  \* get_fragmentation_timeline: fragmentation
    frag_live,      \* the capture: the allocations live after the operations consumed
    frag_ops,       \* history: operations consumed so far
    frag_chronological, \* history: no point so far was of an earlier second than the one before
    frag_last,      \* history: the operation consumed last and the bounds it touched
    initial_timestamp,  \* the capture: data.initial_timestamp(), in whole seconds
    data,           \* State.data: the ids of the loaded captures
    data_ids,       \* State.data_ids
    res_segment,    \* capture resolution: the {id} segment of the last request
    res_response,   \* capture resolution: what the last request's resolution returned
    res_spawned,    \* capture resolution: worker threads spawned so far
    res_calls,      \* history: requests resolved so far
    res_newest,     \* history: the capture the last add_data call that was not ignored added
    res_backtrace,  \* handler_backtrace: the last request's backtrace id and its outcome
    ch_handler,     \* byte channel: the handler whose worker writes to it
    ch_pc,          \* the worker: "idle", "computing", "writing", "returned", "panicked"
    ch_left,        \* the worker: writes it still has to make
    ch_buffered,    \* byte channel: chunks written and not yet read
    ch_rx_alive,    \* byte channel: the receiver half is not dropped
    ch_after_drop,  \* history: chunks the channel took after the receiver was dropped
    reg_input,      \* generate_regions: the ranges of the matched allocations, by address
    reg_output,     \* generate_regions: the regions it emitted
    cache_mutex,    \* who holds State.allocation_group_cache's mutex, if anyone
    generated_mutex,    \* who holds State.generated_files' mutex, if anyone
    lk_request,     \* per request thread: the handler it runs
    lk_pc,          \* per request thread: where it is in the handler or its worker
    lk_left,        \* per request thread: images it still has to register
    arc_heap,       \* the Arc< AllocationGroups > objects made so far
    arc_cache,      \* allocation_group_cache, its values being pointers into arc_heap
    arc_pc,         \* per request thread: where it is in handler_allocation_groups
    arc_request,    \* per request thread: its request
    arc_groups,     \* per request thread: its `let mut groups`
    arc_shared,     \* per request thread: its `allocation_groups` pointer, 0 for none
    arc_seen,       \* per request thread: the groups its worker has read
    call_input,     \* a function run alone: the arguments of its last call
    call_output,    \* a function run alone: what the call returned
    ld_pc,          \* main: "idle", "loading" or "serving"
    ld_inputs,      \* main: the capture id each input file holds
    ld_parallel,    \* main: load_in_parallel
    ld_finished,    \* main: the loader threads that have finished, in the order they did
    ld_joined,      \* main: the inputs whose capture was handed to add_data
    ld_data,        \* main: State.data, the input file each registered id came from
    ld_data_ids,    \* main: State.data_ids
    rej_response,   \* history: the error the last rejected allocation_groups request was answered with
    rej_count,      \* history: allocation_groups requests rejected so far
    rc_heap,        \* racing requests: the AllocationGroups behind an Arc, by pointer
    rc_cache,       \* racing requests: State.allocation_group_cache, of pointers, most recently used first
    rc_pc,          \* racing requests: where each handler is
    rc_request,     \* racing requests: the request each handler serves
    rc_shared       \* racing requests: the handler's allocation_groups pointer, 0 before it has one

filesVars == << by_hash, total_size, gen_lock, run_files, run_instant, clock, ties,
                last_op, since_purge, max_evicted >>

groupsVars == << cache, gpc, greq, cache_op, recent >>

newVars == << new_input, new_output, new_again >>

sortVars == << sort_matched, sort_key, sort_asc, sort_dsc >>

fltVars == << flt_filter, flt_custom, flt_prepared, flt_backtrace, flt_response, flt_match >>

btVars == << bt_filter, positive_cache, negative_cache, bt_evals, bt_scanned, bt_calls,
            bt_last >>

fragVars == << address_map, current_address_min, current_address_max,
              current_used_address_space, frag_x, xs, fragmentation, frag_live,
              frag_ops, frag_chronological, frag_last, initial_timestamp >>

resVars == << data, data_ids, res_segment, res_response, res_spawned, res_calls,
             res_newest, res_backtrace >>

chanVars == << ch_handler, ch_pc, ch_left, ch_buffered, ch_rx_alive, ch_after_drop >>

regVars == << reg_input, reg_output >>

lockVars == << cache_mutex, generated_mutex, lk_request, lk_pc, lk_left >>

arcVars == << arc_heap, arc_cache, arc_pc, arc_request, arc_groups, arc_shared, arc_seen >>

callVars == << call_input, call_output >>

loadVars == << ld_pc, ld_inputs, ld_parallel, ld_finished, ld_joined, ld_data, ld_data_ids >>

rejVars == << rej_response, rej_count >>

raceVars == << rc_heap, rc_cache, rc_pc, rc_request, rc_shared >>

vars == << filesVars, groupsVars, newVars, sortVars, fltVars, btVars, fragVars, resVars,
          chanVars, regVars, lockVars, arcVars, callVars, loadVars, rejVars, raceVars >>

\* What a handler of one component leaves alone.
notFiles == << groupsVars, newVars, sortVars, fltVars, btVars, fragVars, resVars, chanVars, regVars, lockVars, arcVars, callVars, loadVars, rejVars, raceVars >>
notGroups == << filesVars, newVars, sortVars, fltVars, btVars, fragVars, resVars, chanVars, regVars, lockVars, arcVars, callVars, loadVars, rejVars, raceVars >>
notNew == << filesVars, groupsVars, sortVars, fltVars, btVars, fragVars, resVars, chanVars, regVars, lockVars, arcVars, callVars, loadVars, rejVars, raceVars >>
notSort == << filesVars, groupsVars, newVars, fltVars, btVars, fragVars, resVars, chanVars, regVars, lockVars, arcVars, callVars, loadVars, rejVars, raceVars >>
notFlt == << filesVars, groupsVars, newVars, sortVars, btVars, fragVars, resVars, chanVars, regVars, lockVars, arcVars, callVars, loadVars, rejVars, raceVars >>
notFrag == << filesVars, groupsVars, newVars, sortVars, fltVars, btVars, resVars, chanVars, regVars, lockVars, arcVars, callVars, loadVars, rejVars, raceVars >>
notRes == << filesVars, groupsVars, newVars, sortVars, fltVars, btVars, fragVars, chanVars, regVars, lockVars, arcVars, callVars, loadVars, rejVars, raceVars >>
notChan == << filesVars, groupsVars, newVars, sortVars, fltVars, btVars, fragVars,
             resVars, regVars, lockVars, arcVars, callVars, loadVars, rejVars, raceVars >>
notReg == << filesVars, groupsVars, newVars, sortVars, fltVars, btVars, fragVars,
            resVars, chanVars, lockVars, arcVars, callVars, loadVars, rejVars, raceVars >>
notLock == << filesVars, groupsVars, newVars, sortVars, fltVars, btVars, fragVars,
             resVars, chanVars, regVars, arcVars, callVars, loadVars, rejVars, raceVars >>
notArc == << filesVars, groupsVars, newVars, sortVars, fltVars, btVars, fragVars,
            resVars, chanVars, regVars, lockVars, callVars, loadVars, rejVars, raceVars >>
notBt == << filesVars, groupsVars, newVars, sortVars, fltVars, fragVars, resVars, chanVars, regVars, lockVars, arcVars, callVars, loadVars, rejVars, raceVars >>
notCall == << filesVars, groupsVars, newVars, sortVars, fltVars, btVars, fragVars, resVars, chanVars, regVars, lockVars, arcVars, loadVars, rejVars, raceVars >>
notLoad == << filesVars, groupsVars, newVars, sortVars, fltVars, btVars, fragVars, resVars, chanVars, regVars, lockVars, arcVars, callVars, rejVars, raceVars >>
notRej == << filesVars, groupsVars, newVars, sortVars, fltVars, btVars, fragVars, resVars, chanVars, regVars, lockVars, arcVars, callVars, loadVars, raceVars >>
notRace == << filesVars, groupsVars, newVars, sortVars, fltVars, btVars, fragVars, resVars, chanVars, regVars, lockVars, arcVars, callVars, loadVars, rejVars >>

-----------------------------------------------------------------------------
(* Bounds of the model *)

NumContents == 4    \* distinct byte strings the scripts produce
MaxInstant  == 1    \* creation instants are 0..MaxInstant
MaxImages   == 2    \* images one execute_script run produces at most
S5Inserts   == 50   \* entries registered in the one-MiB scenario
MaxTies     == 1    \* equal consecutive instants in the one-MiB scenario
MaxAllocs   == 4    \* allocations AllocationGroups::new is given, when run alone
MaxBacktraces == 2  \* distinct backtraces of these allocations
MaxDepth    == 2    \* frames of one backtrace given to match_backtrace
MaxCalls    == 3    \* match_backtrace calls of one request
MaxAddress  == 3    \* allocations start at 1..MaxAddress and end by MaxAddress + 1
MaxSecs     == 3    \* operation timestamps are whole seconds 0..MaxSecs
MaxInitial  == 1    \* the capture starts at second 0..MaxInitial
MaxCaptures == 3    \* distinct capture ids given to add_data
MaxRequests == 2    \* requests resolved in one run of the server
MaxWrites   == 3    \* writes one worker makes for its response
ChannelCapacity == 2 \* chunks the byte channel buffers before a write blocks
MaxMatched  == 3    \* allocations the filter of a regions request matches
MaxOps      == 3    \* operations of the stream get_fragmentation_timeline consumes
MaxObjects  == 2    \* Arc< AllocationGroups > objects built in one run
MaxWindow   == 3    \* bounds of the time window of a filter are 0..MaxWindow
MaxFold     == 3    \* allocations get_allocation_group_data is given, when run alone
MaxSkip     == 5    \* skip of an allocations request is 0..MaxSkip
MaxCount    == 4    \* count of an allocations request is 0..MaxCount
MaxInputs   == 3    \* input files given to main
MaxRejected == 1    \* rejected allocation_groups requests
MaxStored   == 2    \* backtraces of the capture handler_backtraces goes over
MaxBuilt    == 2    \* AllocationGroups built by the racing requests

Contents == 1..NumContents
Instants == 0..MaxInstant

-----------------------------------------------------------------------------
(* Program constants *)

MiB       == 1024 * 1024
HighWater == 32 * 1024 * 1024
LowWater  == 16 * 1024 * 1024

\* Byte length of each content the scripts of SpecFiles produce:
\* 16 MiB, 8 MiB, 40 MiB, 8 MiB, 1 MiB, then again.
DataLen(c) ==
    CASE c % 5 = 1 -> 16 * MiB
      [] c % 5 = 2 -> 8 * MiB
      [] c % 5 = 3 -> 40 * MiB
      [] c % 5 = 4 -> 8 * MiB
      [] OTHER     -> MiB

\* format!( "{:x}", md5::compute( &*bytes ) ): the key a content is stored under.
Md5(c) == << "md5", c >>

\* GeneratedFile { timestamp, hash, mime, data }; len is data.len().
GeneratedFile(t, c, n) ==
    [ timestamp |-> t, hash |-> Md5(c), mime |-> "image/svg+xml", data |-> c, len |-> n ]

-----------------------------------------------------------------------------
(* Sequences *)

Reverse(s) == [ i \in 1..Len(s) |-> s[Len(s) + 1 - i] ]

Range(s) == { s[i] : i \in 1..Len(s) }

Values(f) == { f[k] : k \in DOMAIN f }

Max(S) == CHOOSE x \in S : \A y \in S : y <= x

-----------------------------------------------------------------------------
(* GeneratedFilesCollection *)

\* list.sort_by_key( |entry| entry.timestamp ) applied to by_hash.values() in
\* the map's iteration order, which is arbitrary: the sort is stable, so every
\* arrangement that is sorted by timestamp is a possible result.
RECURSIVE SortedByTimestamp(_)
SortedByTimestamp(S) ==
    IF S = {} THEN { << >> }
    ELSE LET oldest == { e \in S : \A x \in S : e.timestamp <= x.timestamp }
         IN UNION { { << e >> \o rest : rest \in SortedByTimestamp(S \ {e}) } : e \in oldest }

\* Mutant of PurgeLoop: the loop stops at the high-water mark.
RECURSIVE PurgeLoopToHighWater(_, _, _, _)
PurgeLoopToHighWater(list, files, total, evicted) ==
    IF list = << >> \/ total <= HighWater
    THEN [ by_hash |-> files, total_size |-> total, evicted |-> evicted ]
    ELSE LET entry == list[Len(list)]
         IN PurgeLoopToHighWater( SubSeq(list, 1, Len(list) - 1),
                                  [ h \in DOMAIN files \ {entry.hash} |-> files[h] ],
                                  total - entry.len,
                                  evicted \cup {entry} )

\* Mutant of PurgeLoop: one entry fewer is evicted (the check follows the removal
\* of the next entry instead of preceding it).
RECURSIVE PurgeLoopStopsEarly(_, _, _, _)
PurgeLoopStopsEarly(list, files, total, evicted) ==
    IF list = << >> \/ total - list[Len(list)].len <= LowWater
    THEN [ by_hash |-> files, total_size |-> total, evicted |-> evicted ]
    ELSE LET entry == list[Len(list)]
         IN PurgeLoopStopsEarly( SubSeq(list, 1, Len(list) - 1),
                                 [ h \in DOMAIN files \ {entry.hash} |-> files[h] ],
                                 total - entry.len,
                                 evicted \cup {entry} )

\* Mutant of PurgeLoop: by_hash.remove is missing, the size is still taken off.
RECURSIVE PurgeLoopKeepsEntries(_, _, _, _)
PurgeLoopKeepsEntries(list, files, total, evicted) ==
    IF list = << >> \/ total <= LowWater
    THEN [ by_hash |-> files, total_size |-> total, evicted |-> evicted ]
    ELSE LET entry == list[Len(list)]
         IN PurgeLoopKeepsEntries( SubSeq(list, 1, Len(list) - 1),
                                   files,
                                   total - entry.len,
                                   evicted \cup {entry} )

\* The while-let loop of purge_old_if_too_big: pop from the end of the list.
RECURSIVE PurgeLoop(_, _, _, _)
PurgeLoop(list, files, total, evicted) ==
    IF list = << >> \/ total <= LowWater
    THEN [ by_hash |-> files, total_size |-> total, evicted |-> evicted ]
    ELSE LET entry == list[Len(list)]
         IN PurgeLoop( SubSeq(list, 1, Len(list) - 1),
                       [ h \in DOMAIN files \ {entry.hash} |-> files[h] ],
                       total - entry.len,
                       evicted \cup {entry} )

\* Mutant of PurgeOldIfTooBig: the trigger is total_size > 32 MiB.
PurgeOnlyAboveHighWater(files, total, sorted) ==
    IF total <= HighWater
    THEN [ by_hash |-> files, total_size |-> total, evicted |-> {} ]
    ELSE PurgeLoop(Reverse(sorted), files, total, {})

\* Mutant of PurgeOldIfTooBig: list.reverse() is missing, the newest go first.
PurgeNewestFirst(files, total, sorted) ==
    IF total < HighWater
    THEN [ by_hash |-> files, total_size |-> total, evicted |-> {} ]
    ELSE PurgeLoop(sorted, files, total, {})

\* Mutant of PurgeOldIfTooBig: the test of total_size is missing.
PurgeWithoutThreshold(files, total, sorted) ==
    PurgeLoop(Reverse(sorted), files, total, {})

\* purge_old_if_too_big, for one result `sorted` of the sort.
PurgeOldIfTooBig(files, total, sorted) ==
    IF total < HighWater
    THEN [ by_hash |-> files, total_size |-> total, evicted |-> {} ]
    ELSE PurgeLoop(Reverse(sorted), files, total, {})

\* Mutant of AddFile: the contains_key test is missing.
AddFileAlways(files, total, entry) ==
    [ by_hash    |-> [ h \in DOMAIN files \cup {entry.hash} |->
                         IF h = entry.hash THEN entry ELSE files[h] ],
      total_size |-> total + entry.len ]

\* add_file
AddFile(files, total, entry) ==
    IF entry.hash \notin DOMAIN files
    THEN [ by_hash    |-> [ h \in DOMAIN files \cup {entry.hash} |->
                              IF h = entry.hash THEN entry ELSE files[h] ],
           total_size |-> total + entry.len ]
    ELSE [ by_hash |-> files, total_size |-> total ]

-----------------------------------------------------------------------------
(* The registering handlers.                                               *)
(*                                                                         *)
(* A handler builds its entries (Instant::now(), md5) before it takes the  *)
(* lock, so on concurrent threads an entry can be registered after entries *)
(* that were created later: the entries a lock holder brings are inputs,   *)
(* of any content and any instant (non-decreasing within one thread).      *)
(***************************************************************************)

NoOp == [ op |-> "none" ]

FilesInit ==
    /\ by_hash = << >>
    /\ total_size = 0
    /\ gen_lock = "free"
    /\ run_files = 0
    /\ run_instant = 0
    /\ clock = 0
    /\ ties = 0
    /\ last_op = NoOp
    /\ since_purge = 0
    /\ max_evicted = -1

\* state.generated_files.lock(); generated.purge_old_if_too_big();
LockAndPurge(holder) ==
    /\ gen_lock = "free"
    /\ gen_lock' = holder
    /\ run_files' = 0
    /\ run_instant' = 0
    /\ \E sorted \in SortedByTimestamp(Values(by_hash)) :
        LET r == PurgeOldIfTooBig(by_hash, total_size, sorted) IN
        /\ by_hash' = r.by_hash
        /\ total_size' = r.total_size
        /\ last_op' = [ op |-> "purge", pre_total |-> total_size, evicted |-> r.evicted ]
        /\ max_evicted' = Max({max_evicted} \cup { e.timestamp : e \in r.evicted })
    /\ since_purge' = 0

\* generated.add_file( entry )
Add(entry) ==
    LET r == AddFile(by_hash, total_size, entry) IN
    /\ by_hash' = r.by_hash
    /\ total_size' = r.total_size
    /\ last_op' = [ op |-> "add", pre_total |-> total_size, entry |-> entry,
                    present |-> \E e \in Values(by_hash) : e.hash = entry.hash ]
    /\ since_purge' = since_purge + entry.len
    /\ run_files' = run_files + 1
    /\ run_instant' = entry.timestamp
    /\ UNCHANGED max_evicted

\* get_allocation_groups, one Image of a group's graph: lock and purge ...
GraphPurge ==
    /\ LockAndPurge("graph")
    /\ UNCHANGED << clock, ties >>
    /\ UNCHANGED notFiles

\* Mutant of GraphAdd: add_file without the lock and the purge before it.
GraphAddWithoutPurge ==
    /\ gen_lock = "free"
    /\ \E c \in Contents, t \in Instants : Add(GeneratedFile(t, c, DataLen(c)))
    /\ UNCHANGED << gen_lock, clock, ties >>
    /\ UNCHANGED notFiles

\* ... add_file, and the guard is dropped at the end of the match arm.
GraphAdd ==
    /\ gen_lock = "graph"
    /\ \E c \in Contents, t \in Instants : Add(GeneratedFile(t, c, DataLen(c)))
    /\ gen_lock' = "free"
    /\ UNCHANGED << clock, ties >>
    /\ UNCHANGED notFiles

\* handler_execute_script: lock, then one purge for the whole run.
ScriptPurge ==
    /\ LockAndPurge("script")
    /\ UNCHANGED << clock, ties >>
    /\ UNCHANGED notFiles

\* for entry in new_files { generated.add_file( entry ); }
ScriptAdd ==
    /\ gen_lock = "script"
    /\ run_files < MaxImages
    /\ \E c \in Contents, t \in Instants :
        /\ t >= run_instant
        /\ Add(GeneratedFile(t, c, DataLen(c)))
    /\ UNCHANGED << gen_lock, clock, ties >>
    /\ UNCHANGED notFiles

\* std::mem::drop( generated ), after the last (possibly no) new file.
ScriptUnlock ==
    /\ gen_lock = "script"
    /\ gen_lock' = "free"
    /\ UNCHANGED << by_hash, total_size, run_files, run_instant, clock, ties,
                    last_op, since_purge, max_evicted >>
    /\ UNCHANGED notFiles

FilesNext ==
    \/ GraphPurge
    \/ GraphAdd
    \/ ScriptPurge
    \/ ScriptAdd
    \/ ScriptUnlock

-----------------------------------------------------------------------------
(* Scenario S5: distinct one-MiB entries registered one at a time, each by *)
(* purge_old_if_too_big then add_file, by one thread.                      *)

\* The next registration starts: lock and purge.
S5Purge ==
    /\ clock + ties < S5Inserts
    /\ LockAndPurge("graph")
    /\ UNCHANGED << clock, ties >>
    /\ UNCHANGED notFiles

\* The entry is the next distinct one-MiB content, created at Instant::now(),
\* which is monotonic: two readings can be equal.
S5Add ==
    /\ gen_lock = "graph"
    /\ \E t \in { clock, clock + 1 } :
        /\ t = clock => ties < MaxTies
        /\ clock' = t
        /\ ties' = IF t = clock THEN ties + 1 ELSE ties
        /\ Add(GeneratedFile(t, clock + ties + 1, MiB))
    /\ gen_lock' = "free"
    /\ UNCHANGED notFiles

S5Next ==
    \/ S5Purge
    \/ S5Add

-----------------------------------------------------------------------------
(* The capture (cli_core::Data): immutable after load.                    *)

\* Option< T >
None == {}
Some(x) == {x}
Unwrap(o) == CHOOSE x \in o : TRUE
UnwrapOr(o, default) == IF o = None THEN default ELSE Unwrap(o)

DataId == 1

\* data.get_allocation( id ): backtrace, timestamp, size, deallocation.
Allocations ==
    [ id \in 1..4 |->
        CASE id = 1 -> [ backtrace |-> 1, timestamp |-> 10, size |-> 8, deallocation |-> None ]
          [] id = 2 -> [ backtrace |-> 2, timestamp |-> 40, size |-> 2, deallocation |-> None ]
          [] id = 3 -> [ backtrace |-> 1, timestamp |-> 20, size |-> 8, deallocation |-> Some(45) ]
          [] id = 4 -> [ backtrace |-> 3, timestamp |-> 30, size |-> 4, deallocation |-> None ] ]

AllocationIds == DOMAIN Allocations

\* data.alloc_sorted_by_timestamp( None, None )
AllocSortedByTimestamp == << 1, 3, 4, 2 >>

MinOf(S) == CHOOSE x \in S : \A y \in S : x <= y

RECURSIVE Sum(_, _)
Sum(f, S) ==
    IF S = {} THEN 0 ELSE LET x == CHOOSE y \in S : TRUE IN f[x] + Sum(f, S \ {x})

\* When the usage of the backtrace first reached its maximum: a datum of the
\* capture.
MaxTotalUsageFirstSeenAt == [ backtrace_id \in 1..3 |->
    CASE backtrace_id = 1 -> 20 [] backtrace_id = 2 -> 40 [] backtrace_id = 3 -> 30 ]

\* data.get_group_statistics( backtrace_id ): over all allocations of the capture.
GroupStatistics(backtrace_id) ==
    LET ids == { id \in AllocationIds : Allocations[id].backtrace = backtrace_id }
        timestamps == { Allocations[id].timestamp : id \in ids }
    IN [ alloc_count |-> Cardinality(ids),
         free_count  |-> Cardinality({ id \in ids : Allocations[id].deallocation # None }),
         alloc_size  |-> Sum([ id \in ids |-> Allocations[id].size ], ids),
         first_allocation |-> MinOf(timestamps),
         last_allocation  |-> Max(timestamps),
         max_total_usage_first_seen_at |-> MaxTotalUsageFirstSeenAt[backtrace_id] ]

-----------------------------------------------------------------------------
(* Wire requests (protocol::AllocFilter, CustomFilter, RequestAllocationGroups) *)

Percent(v) == [ kind |-> "Percent", value |-> v ]
Fraction(hundredths) == [ kind |-> "Fraction", hundredths |-> hundredths ]

AllocFilter(size_min, lifetime, group_leaked_allocations_min) ==
    [ size_min |-> size_min, lifetime |-> lifetime,
      group_leaked_allocations_min |-> group_leaked_allocations_min ]

Request(filter, custom_filter, sort_by, order) ==
    [ filter |-> filter, custom_filter |-> custom_filter, sort_by |-> sort_by, order |-> order ]

\* The query strings the clients of the model send.
Requests ==
    { Request(AllocFilter(None, None, None), None, None, None),
      Request(AllocFilter(None, Some("All"), None), None, None, None),
      Request(AllocFilter(None, Some("OnlyWholeGroupLeaked"), None), None, Some("Size"), Some("Dsc")),
      Request(AllocFilter(None, None, Some(Percent(100))), None, Some("Size"), Some("Dsc")),
      Request(AllocFilter(None, None, None), Some("only_first_backtraces"), None, None),
      Request(AllocFilter(None, None, None), None, Some("MinTimestamp"), Some("Asc")) }

\* What the scripting engine returns for a custom-filter script: allocation ids.
ScriptResult(script) ==
    IF script = "only_first_backtraces" THEN << 3, 1, 2, 3 >> ELSE << >>

-----------------------------------------------------------------------------
(* filter.rs *)

\* impl From< NumberOrPercentage > for NumberOrFractionOfTotal (Percent arm)
ToFractionOfTotal(value) ==
    IF value = None THEN None ELSE Some(Fraction(Unwrap(value).value))

\* prepare_raw_filter: the fields of cli_core::BasicFilter the model's wire
\* filters can set.
PrepareRawFilter(filter) ==
    LET lifetime == UnwrapOr(filter.lifetime, "All") IN
    [ only_larger_or_equal |-> filter.size_min,
      only_leaked |-> (lifetime = "OnlyLeaked"),
      only_temporary |-> (lifetime = "OnlyTemporary"),
      only_group_leaked_allocations_at_least |->
          IF lifetime = "OnlyWholeGroupLeaked" THEN Some(Fraction(100))
          ELSE ToFractionOfTotal(filter.group_leaked_allocations_min) ]

\* cli_core::CompiledFilter::try_match
CompiledTryMatch(compiled, allocation) ==
    /\ compiled.only_larger_or_equal # None =>
        allocation.size >= Unwrap(compiled.only_larger_or_equal)
    /\ compiled.only_leaked => allocation.deallocation = None
    /\ compiled.only_group_leaked_allocations_at_least # None =>
        LET stats == GroupStatistics(allocation.backtrace) IN
        (stats.alloc_count - stats.free_count) * 100
            >= Unwrap(compiled.only_group_leaked_allocations_at_least).hundredths * stats.alloc_count

\* Mutant of RunCustomFilter: the empty string is run as a script.
RunCustomFilterRunsEmpty(custom_filter) ==
    IF custom_filter = None THEN None
    ELSE Some(Range(ScriptResult(Unwrap(custom_filter))))

\* run_custom_filter
RunCustomFilter(custom_filter) ==
    IF custom_filter = None THEN None
    ELSE IF Unwrap(custom_filter) = "" THEN None
    ELSE Some(Range(ScriptResult(Unwrap(custom_filter))))

\* prepare_filter
PrepareFilter(filter, custom_filter) ==
    [ filter |-> PrepareRawFilter(filter), custom_filter |-> RunCustomFilter(custom_filter) ]

\* Mutant of TryMatch: the scripted id set is not consulted.
TryMatchWithoutCustom(prepared, id, allocation) ==
    CompiledTryMatch(prepared.filter, allocation)

\* AllocationFilter::try_match
TryMatch(prepared, id, allocation) ==
    IF prepared.custom_filter # None /\ id \notin Unwrap(prepared.custom_filter) THEN FALSE
    ELSE CompiledTryMatch(prepared.filter, allocation)

-----------------------------------------------------------------------------
(* AllocationGroups::new *)

\* The fold closure, over one contiguous piece of the input: a map from
\* backtrace to the ids seen, in the order seen. The input is a sequence of
\* << id, backtrace >>.
RECURSIVE FoldWith(_, _)
FoldWith(grouped, piece) ==
    IF piece = << >> THEN grouped
    ELSE LET id == piece[1][1]
             backtrace == piece[1][2]
             next == [ b \in DOMAIN grouped \cup {backtrace} |->
                         IF b = backtrace
                         THEN (IF b \in DOMAIN grouped THEN Append(grouped[b], id) ELSE << id >>)
                         ELSE grouped[b] ]
         IN FoldWith(next, Tail(piece))

\* Mutant of Extend: a.insert( backtrace, ids ) in place of entry().extend().
ExtendOverwrites(a, b) ==
    [ bt \in DOMAIN a \cup DOMAIN b |-> IF bt \in DOMAIN b THEN b[bt] ELSE a[bt] ]

\* for (backtrace, ids) in b { a.entry( backtrace ).or_insert_with( Vec::new ).extend( ids ); }
Extend(a, b) ==
    [ bt \in DOMAIN a \cup DOMAIN b |->
        IF bt \in DOMAIN a /\ bt \in DOMAIN b THEN a[bt] \o b[bt]
        ELSE IF bt \in DOMAIN a THEN a[bt] ELSE b[bt] ]

\* Mutant of Reduce: after the swap the smaller map is dropped, not merged.
ReduceKeepsLarger(a, b) ==
    IF Cardinality(DOMAIN b) > Cardinality(DOMAIN a) THEN b ELSE Extend(a, b)

\* The reduce closure: the smaller map is merged into the larger.
Reduce(a, b) ==
    IF Cardinality(DOMAIN b) > Cardinality(DOMAIN a) THEN Extend(b, a) ELSE Extend(a, b)

\* fold_with + reduce on the work-stealing pool: the input is split into
\* contiguous pieces in any way, each piece is folded, and the partial maps of
\* adjacent pieces are reduced pairwise, left operand first.
RECURSIVE FoldReduce(_)
FoldReduce(input) ==
    { FoldWith(<< >>, input) } \cup
    UNION { { Reduce(a, b) : a \in FoldReduce(SubSeq(input, 1, k)),
                             b \in FoldReduce(SubSeq(input, k + 1, Len(input))) }
            : k \in 1..(Len(input) - 1) }

\* grouped.into_iter().collect() in any order, then par_sort_by_key on the
\* backtrace id (the keys are distinct).
RECURSIVE SortedByBacktrace(_)
SortedByBacktrace(grouped) ==
    IF DOMAIN grouped = {} THEN << >>
    ELSE LET first == CHOOSE b \in DOMAIN grouped : \A x \in DOMAIN grouped : b <= x
         IN << [ backtrace |-> first, ids |-> grouped[first] ] >>
            \o SortedByBacktrace([ b \in DOMAIN grouped \ {first} |-> grouped[b] ])

\* VecVec::insert( key, values ): the values are stored under the key, after
\* the entries inserted before, in the order they are given.
VecVecInsert(allocations, backtrace_id, allocation_ids) ==
    Append(allocations, [ backtrace |-> backtrace_id, ids |-> allocation_ids ])

\* for (backtrace_id, allocation_ids) in grouped { allocations.insert( .. ); }
RECURSIVE InsertAll(_, _)
InsertAll(allocations, grouped) ==
    IF grouped = << >> THEN allocations
    ELSE InsertAll(VecVecInsert(allocations, grouped[1].backtrace, grouped[1].ids),
                   Tail(grouped))

\* AllocationGroups::new: every value it can return for the input.
AllocationGroupsNew(input) ==
    { InsertAll(<< >>, SortedByBacktrace(grouped)) : grouped \in FoldReduce(input) }

-----------------------------------------------------------------------------
(* Sorting the groups (handler_allocation_groups) *)

\* get_allocation_group_data, of the allocations of one group.
AllocationGroupData(ids) ==
    LET set == Range(ids)
        timestamps == { Allocations[id].timestamp : id \in set }
    IN [ allocated_count |-> Cardinality(set),
         leaked_count    |-> Cardinality({ id \in set : Allocations[id].deallocation = None }),
         size            |-> Sum([ id \in set |-> Allocations[id].size ], set),
         min_timestamp   |-> MinOf(timestamps),
         max_timestamp   |-> Max(timestamps),
         interval        |-> Max(timestamps) - MinOf(timestamps) ]

\* get_global_group_data
GlobalGroupData(backtrace_id) ==
    LET stats == GroupStatistics(backtrace_id) IN
    [ allocated_count |-> stats.alloc_count,
      leaked_count    |-> stats.alloc_count - stats.free_count,
      size            |-> stats.alloc_size,
      min_timestamp   |-> stats.first_allocation,
      max_timestamp   |-> stats.last_allocation,
      interval        |-> stats.last_allocation - stats.first_allocation,
      max_total_usage_first_seen_at |-> stats.max_total_usage_first_seen_at ]

\* The match on key.sort_by: is_global and the callback of each sort key.
SortKeyOf(sort_by, group) ==
    CASE sort_by = "MinTimestamp"         -> AllocationGroupData(group.ids).min_timestamp
      [] sort_by = "MaxTimestamp"         -> AllocationGroupData(group.ids).max_timestamp
      [] sort_by = "Interval"             -> AllocationGroupData(group.ids).interval
      [] sort_by = "AllocatedCount"       -> AllocationGroupData(group.ids).allocated_count
      [] sort_by = "LeakedCount"          -> AllocationGroupData(group.ids).leaked_count
      [] sort_by = "Size"                 -> AllocationGroupData(group.ids).size
      [] sort_by = "GlobalMinTimestamp"   -> GlobalGroupData(group.backtrace).min_timestamp
      [] sort_by = "GlobalMaxTimestamp"   -> GlobalGroupData(group.backtrace).max_timestamp
      [] sort_by = "GlobalInterval"       -> GlobalGroupData(group.backtrace).interval
      [] sort_by = "GlobalAllocatedCount" -> GlobalGroupData(group.backtrace).allocated_count
      [] sort_by = "GlobalLeakedCount"    -> GlobalGroupData(group.backtrace).leaked_count
      [] sort_by = "GlobalSize"           -> GlobalGroupData(group.backtrace).size
      [] sort_by = "GlobalMaxTotalUsageFirstSeenAt" ->
             GlobalGroupData(group.backtrace).max_total_usage_first_seen_at

\* VecVec::par_sort_by_key: a stable sort of the groups by the key.
RECURSIVE ParSortByKey(_, _)
ParSortByKey(groups, sort_by) ==
    IF groups = << >> THEN << >>
    ELSE LET n == Len(groups)
             last == groups[n]
             front == ParSortByKey(SubSeq(groups, 1, n - 1), sort_by)
             \* `last` goes after every group whose key is <= its own
             keep == { i \in 1..Len(front) :
                         \A j \in 1..i : SortKeyOf(sort_by, front[j]) <= SortKeyOf(sort_by, last) }
             at == Cardinality(keep)
         IN SubSeq(front, 1, at) \o << last >> \o SubSeq(front, at + 1, Len(front))

\* Mutant of SortBy: Order::Dsc is not reversed.
SortByNeverReversed(groups, order, sort_by) ==
    ParSortByKey(groups, sort_by)

\* fn sort_by: sort ascending by the key, then reverse for Order::Dsc.
SortBy(groups, order, sort_by) ==
    LET sorted == ParSortByKey(groups, sort_by) IN
    IF order = "Dsc" THEN Reverse(sorted) ELSE sorted

-----------------------------------------------------------------------------
(* The allocation-group cache *)

CacheCapacity == 4

\* Mutant of AllocationGroupsKey: the custom filter is left out of the key.
KeyWithoutCustomFilter(request) ==
    [ data_id       |-> DataId,
      filter        |-> request.filter,
      custom_filter |-> None,
      sort_by       |-> UnwrapOr(request.sort_by, "MinTimestamp"),
      order         |-> UnwrapOr(request.order, "Asc") ]

\* AllocationGroupsKey { data_id, filter, custom_filter, sort_by, order }
AllocationGroupsKey(request) ==
    [ data_id       |-> DataId,
      filter        |-> request.filter,
      custom_filter |-> request.custom_filter,
      sort_by       |-> UnwrapOr(request.sort_by, "MinTimestamp"),
      order         |-> UnwrapOr(request.order, "Asc") ]

\* The cache is the list of its entries, the most recently used first.
Position(lru, key) ==
    IF \E i \in 1..Len(lru) : lru[i].key = key
    THEN CHOOSE i \in 1..Len(lru) : lru[i].key = key
    ELSE 0

Without(lru, i) == SubSeq(lru, 1, i - 1) \o SubSeq(lru, i + 1, Len(lru))

\* Mutant of LruGet: a hit leaves the entry where it is (peek).
LruGetNoPromote(lru, key) ==
    LET i == Position(lru, key) IN
    IF i = 0 THEN [ value |-> None, lru |-> lru ]
    ELSE [ value |-> Some(lru[i].value), lru |-> lru ]

\* LruCache::get: a hit moves the entry to the front.
LruGet(lru, key) ==
    LET i == Position(lru, key) IN
    IF i = 0 THEN [ value |-> None, lru |-> lru ]
    ELSE [ value |-> Some(lru[i].value), lru |-> << lru[i] >> \o Without(lru, i) ]

\* Mutant of LruPut: a present key keeps its old value, and a new key is
\* added after the entries the cache holds.
LruPutKeepsPresent(lru, key, value) ==
    LET i == Position(lru, key)
        entry == [ key |-> key, value |-> value ]
    IN IF i # 0 THEN << lru[i] >> \o Without(lru, i)
       ELSE IF Len(lru) >= CacheCapacity
       THEN SubSeq(lru, 1, CacheCapacity - 1) \o << entry >>
       ELSE lru \o << entry >>

\* LruCache::put: a present key gets the new value and moves to the front; a
\* new key is put at the front, the last entry of a full cache being dropped.
LruPut(lru, key, value) ==
    LET i == Position(lru, key)
        entry == [ key |-> key, value |-> value ]
    IN IF i # 0 THEN << entry >> \o Without(lru, i)
       ELSE IF Len(lru) >= CacheCapacity
       THEN << entry >> \o SubSeq(lru, 1, CacheCapacity - 1)
       ELSE << entry >> \o lru

-----------------------------------------------------------------------------
(* handler_allocation_groups *)

Threads == { 1, 2 }

GroupsInit ==
    /\ cache = << >>
    /\ gpc = [ t \in Threads |-> "idle" ]
    /\ greq = [ t \in Threads |-> None ]
    /\ cache_op = NoOp
    /\ recent = << >>

\* The ids the parallel iterator yields: the timestamp index, filtered by the
\* filter prepare_filter made of the request's parameters.
Matched(request) ==
    LET prepared == PrepareFilter(request.filter, request.custom_filter) IN
    SelectSeq(AllocSortedByTimestamp, LAMBDA id : TryMatch(prepared, id, Allocations[id]))

NewInput(ids) == [ i \in 1..Len(ids) |-> << ids[i], Allocations[ids[i]].backtrace >> ]

\* The miss branch up to Arc::new( groups ): every value it can build.
BuiltGroups(request) ==
    LET key == AllocationGroupsKey(request) IN
    { SortBy(groups, key.order, key.sort_by) :
        groups \in AllocationGroupsNew(NewInput(Matched(request))) }

BuiltGroupsOf == [ request \in Requests |-> BuiltGroups(request) ]

MoveToFront(keys, key) == << key >> \o SelectSeq(keys, LAMBDA k : k # key)

CachedKeys(lru) == { lru[i].key : i \in 1..Len(lru) }

\* A request came to its groups: it hit the cache, or it built and installed them.
Completes(op) == op.op = "put" \/ (op.op = "get" /\ op.value # None)

\* Two keys whose wire filters prepare_raw_filter lowers to the same filter,
\* everything else being equal.
SameLowered(k1, k2) ==
    /\ k1.data_id = k2.data_id
    /\ PrepareRawFilter(k1.filter) = PrepareRawFilter(k2.filter)
    /\ k1.custom_filter = k2.custom_filter
    /\ k1.sort_by = k2.sort_by
    /\ k1.order = k2.order

\* History of one allocation_group_cache.lock().get( &key ).cloned().
GetOp(request, key, value) ==
    [ op |-> "get", request |-> request, key |-> key, value |-> value,
      evicted |-> None, victim |-> None, rebuilt |-> FALSE,
      after_same |-> (Completes(cache_op) /\ cache_op.key = key) ]

\* allocation_group_cache.lock().get( &key ).cloned() returns Some: the handler
\* goes on with the cached groups.
LookupHit(t) ==
    /\ gpc[t] = "idle"
    /\ \E request \in Requests :
        LET key == AllocationGroupsKey(request)
            got == LruGet(cache, key)
        IN /\ got.value # None
           /\ cache' = got.lru
           /\ cache_op' = GetOp(request, key, got.value)
           /\ recent' = MoveToFront(recent, key)
    /\ UNCHANGED << gpc, greq >>
    /\ UNCHANGED notGroups

\* ... returns None: the lock is released and the handler builds the groups.
LookupMiss(t) ==
    /\ gpc[t] = "idle"
    /\ \E request \in Requests :
        LET key == AllocationGroupsKey(request)
            got == LruGet(cache, key)
        IN /\ got.value = None
           /\ cache' = got.lru
           /\ cache_op' = GetOp(request, key, None)
           /\ greq' = [ greq EXCEPT ![t] = Some(request) ]
    /\ gpc' = [ gpc EXCEPT ![t] = "build" ]
    /\ UNCHANGED recent
    /\ UNCHANGED notGroups

\* AllocationGroups::new, sort_by, Arc::new, allocation_group_cache.lock().put.
\* The history records which key a least-recently-used policy has to drop
\* (victim), from the order of use kept in `recent`, and which keys left the
\* cache (evicted).
BuildAndPut(t) ==
    /\ gpc[t] = "build"
    /\ LET request == Unwrap(greq[t])
           key == AllocationGroupsKey(request)
       IN \E groups \in BuiltGroupsOf[request] :
           LET value == groups   \* Arc::new( groups ): the object is its contents
               cached == CachedKeys(cache)
               full == Cardinality(cached) >= 4 /\ key \notin cached
               used == SelectSeq(recent, LAMBDA k : k \in cached)
           IN /\ cache' = LruPut(cache, key, value)
              /\ cache_op' = [ op |-> "put", request |-> request, key |-> key,
                               value |-> Some(value),
                               evicted |-> cached \ CachedKeys(cache'),
                               victim |-> IF full THEN Some(used[Len(used)]) ELSE None,
                               rebuilt |-> (key \in Range(recent) /\ key \notin cached),
                               after_same |-> FALSE ]
              /\ recent' = MoveToFront(recent, key)
    /\ gpc' = [ gpc EXCEPT ![t] = "idle" ]
    /\ greq' = [ greq EXCEPT ![t] = None ]
    /\ UNCHANGED notGroups

GroupsNext ==
    \E t \in Threads :
        \/ LookupHit(t)
        \/ LookupMiss(t)
        \/ BuildAndPut(t)

-----------------------------------------------------------------------------
(* AllocationGroups::new alone, on any input *)

\* What the parallel iterator can yield: distinct allocation ids in any order,
\* each with the backtrace of its allocation.
NewInputs ==
    { input \in UNION { [ 1..n -> (1..MaxAllocs) \X (1..MaxBacktraces) ] : n \in 0..MaxAllocs } :
        \A i, j \in 1..Len(input) : i # j => input[i][1] # input[j][1] }

NewInit ==
    /\ new_input \in NewInputs
    /\ new_output = None
    /\ new_again = None

\* let mut groups = AllocationGroups::new( iter );
CallNew ==
    /\ new_output = None
    /\ \E groups \in AllocationGroupsNew(new_input) : new_output' = Some(groups)
    /\ UNCHANGED << new_input, new_again >>
    /\ UNCHANGED notNew

\* The groups are built a second time from the same iterator (a rebuild of the
\* same capture and filter), with whatever split the pool makes this time.
CallNewAgain ==
    /\ new_output # None
    /\ new_again = None
    /\ \E groups \in AllocationGroupsNew(new_input) : new_again' = Some(groups)
    /\ UNCHANGED << new_input, new_output >>
    /\ UNCHANGED notNew

NewNext ==
    \/ CallNew
    \/ CallNewAgain

-----------------------------------------------------------------------------
(* The miss branch's build and sort alone, for every sort key *)

AllocGroupsSortBy ==
    { "MinTimestamp", "MaxTimestamp", "Interval", "AllocatedCount", "LeakedCount", "Size",
      "GlobalMinTimestamp", "GlobalMaxTimestamp", "GlobalInterval", "GlobalAllocatedCount",
      "GlobalLeakedCount", "GlobalSize", "GlobalMaxTotalUsageFirstSeenAt" }

\* What a filter can match: the ids of any part of the timestamp index, in the
\* order of the index.
RECURSIVE SubSequences(_)
SubSequences(s) ==
    IF s = << >> THEN { << >> }
    ELSE LET rest == SubSequences(Tail(s)) IN
         rest \cup { << s[1] >> \o r : r \in rest }

SortIdle ==
    /\ sort_matched = << >>
    /\ sort_key = "MinTimestamp"
    /\ sort_asc = None
    /\ sort_dsc = None

SortInit ==
    /\ sort_matched \in SubSequences(AllocSortedByTimestamp)
    /\ sort_key \in AllocGroupsSortBy
    /\ sort_asc = None
    /\ sort_dsc = None

\* A request with order Asc misses: AllocationGroups::new, then sort_by.
SortAsc ==
    /\ sort_asc = None
    /\ \E groups \in AllocationGroupsNew(NewInput(sort_matched)) :
          sort_asc' = Some(SortBy(groups, "Asc", sort_key))
    /\ UNCHANGED << sort_matched, sort_key, sort_dsc >>
    /\ UNCHANGED notSort

\* A request with order Dsc misses: its own build, then sort_by.
SortDsc ==
    /\ sort_dsc = None
    /\ \E groups \in AllocationGroupsNew(NewInput(sort_matched)) :
          sort_dsc' = Some(SortBy(groups, "Dsc", sort_key))
    /\ UNCHANGED << sort_matched, sort_key, sort_asc >>
    /\ UNCHANGED notSort

SortNext ==
    \/ SortAsc
    \/ SortDsc

-----------------------------------------------------------------------------
(* Filter preparation and AllocationFilter::try_match alone *)

Ok(value) == [ ok |-> TRUE, value |-> value ]
Err(error) == [ ok |-> FALSE, error |-> error ]

\* Regex::new( pattern ): the patterns of the model are a valid one and an
\* unbalanced parenthesis.
RegexNew(pattern) ==
    IF pattern = "(" THEN Err("unclosed group") ELSE Ok(<< "regex", pattern >>)

InvalidRegex(field, inner_err) == [ kind |-> "InvalidRegex", field |-> field, inner |-> inner_err ]
InvalidCustomFilter(message) == [ kind |-> "InvalidCustomFilter", message |-> message ]

\* Mutant of CompileRegexes: every failure is reported as "function_regex".
RECURSIVE CompileRegexesOneName(_, _)
CompileRegexesOneName(filter, fields) ==
    IF fields = << >> THEN Ok(<< >>)
    ELSE LET pattern == filter[fields[1]] IN
         IF pattern # None /\ ~RegexNew(Unwrap(pattern)).ok
         THEN Err(InvalidRegex("function_regex", RegexNew(Unwrap(pattern)).error))
         ELSE CompileRegexesOneName(filter, Tail(fields))

\* The four `if let Some( ref pattern )` blocks: the first field, in the order
\* given, whose pattern does not compile ends the function with InvalidRegex.
RECURSIVE CompileRegexes(_, _)
CompileRegexes(filter, fields) ==
    IF fields = << >> THEN Ok(<< >>)
    ELSE LET pattern == filter[fields[1]] IN
         IF pattern # None /\ ~RegexNew(Unwrap(pattern)).ok
         THEN Err(InvalidRegex(fields[1], RegexNew(Unwrap(pattern)).error))
         ELSE CompileRegexes(filter, Tail(fields))

\* prepare_raw_filter, as a Result.
TryPrepareRawFilter(filter) ==
    LET compiled == CompileRegexes(filter, << "function_regex", "negative_function_regex",
                                             "source_regex", "negative_source_regex" >>)
    IN IF compiled.ok THEN Ok(PrepareRawFilter(filter)) ELSE compiled

\* prepare_backtrace_filter, as a Result.
PrepareBacktraceFilter(filter) ==
    LET compiled == CompileRegexes(filter, << "function_regex", "source_regex",
                                             "negative_function_regex", "negative_source_regex" >>)
    IN IF compiled.ok
       THEN Ok([ function_regex |-> filter.function_regex,
                 source_regex |-> filter.source_regex,
                 negative_function_regex |-> filter.negative_function_regex,
                 negative_source_regex |-> filter.negative_source_regex ])
       ELSE compiled

\* engine.run( &custom_filter ) fails for this script.
ScriptFails(script) == script = "syntax error"

\* How often run_custom_filter runs the script engine.
EngineRuns(custom_filter) ==
    IF custom_filter = None THEN 0
    ELSE IF Unwrap(custom_filter) = "" THEN 0
    ELSE 1

\* prepare_filter, as a Result, with the number of script engine runs made.
TryPrepareFilter(filter, custom_filter) ==
    LET raw == TryPrepareRawFilter(filter) IN
    IF ~raw.ok THEN [ result |-> raw, engine_runs |-> 0 ]
    ELSE IF EngineRuns(custom_filter) = 1 /\ ScriptFails(Unwrap(custom_filter))
    THEN [ result |-> Err(InvalidCustomFilter("error")), engine_runs |-> 1 ]
    ELSE [ result |-> Ok(PrepareFilter(filter, custom_filter)),
           engine_runs |-> EngineRuns(custom_filter) ]

\* impl From< PrepareFilterError > for ActixWebError: the parts of the message.
ErrorBadRequest(error) ==
    [ status |-> 400,
      message |-> IF error.kind = "InvalidRegex"
                  THEN << "invalid '", error.field, "': ", error.inner >>
                  ELSE << "failed to evaluate custom filter: ", error.message >> ]

\* How often AllocationFilter::try_match calls the compiled filter's try_match.
CompiledTryMatchCalls(prepared, id) ==
    IF prepared.custom_filter # None /\ id \notin Unwrap(prepared.custom_filter) THEN 0 ELSE 1

RegexFields == { "function_regex", "negative_function_regex", "source_regex",
                 "negative_source_regex" }

\* The wire filters of the model: each regex field absent, valid or invalid.
WireFilters ==
    { [ f \in RegexFields \cup { "size_min", "lifetime", "group_leaked_allocations_min" } |->
          IF f \in RegexFields THEN regexes[f]
          ELSE IF f = "size_min" THEN size_min
          ELSE IF f = "lifetime" THEN lifetime
          ELSE None ] :
        regexes \in [ RegexFields -> { None, Some("main"), Some("(") } ],
        size_min \in { None, Some(4) },
        lifetime \in { None, Some("OnlyLeaked") } }

CustomFilters == { None, Some(""), Some("only_first_backtraces"), Some("syntax error") }

FltIdle ==
    /\ flt_filter = AllocFilter(None, None, None)
    /\ flt_custom = None
    /\ flt_prepared = None
    /\ flt_backtrace = None
    /\ flt_response = None
    /\ flt_match = None

FltInit ==
    /\ flt_filter \in WireFilters
    /\ flt_custom \in CustomFilters
    /\ flt_prepared = None
    /\ flt_backtrace = None
    /\ flt_response = None
    /\ flt_match = None

\* let filter = prepare_filter( data, &filter_params, &custom_filter )?;
\* an Err leaves the handler with the response made from it.
CallPrepareFilter ==
    /\ flt_prepared = None
    /\ flt_backtrace = None
    /\ LET prepared == TryPrepareFilter(flt_filter, flt_custom) IN
        /\ flt_prepared' = Some(prepared)
        /\ flt_response' = IF prepared.result.ok THEN None
                            ELSE Some(ErrorBadRequest(prepared.result.error))
    /\ UNCHANGED << flt_filter, flt_custom, flt_backtrace, flt_match >>
    /\ UNCHANGED notFlt

\* let filter = crate::filter::prepare_backtrace_filter( &filter )?;
CallPrepareBacktraceFilter ==
    /\ flt_backtrace = None
    /\ flt_prepared = None
    /\ LET prepared == PrepareBacktraceFilter(flt_filter) IN
        /\ flt_backtrace' = Some(prepared)
        /\ flt_response' = IF prepared.ok THEN None ELSE Some(ErrorBadRequest(prepared.error))
    /\ UNCHANGED << flt_filter, flt_custom, flt_prepared, flt_match >>
    /\ UNCHANGED notFlt

\* filter.try_match( data, id, allocation ), with the prepared filter.
CallTryMatch ==
    /\ flt_prepared # None
    /\ Unwrap(flt_prepared).result.ok
    /\ \E id \in AllocationIds :
        LET prepared == Unwrap(flt_prepared).result.value IN
        flt_match' = Some([ id |-> id,
                            result |-> TryMatch(prepared, id, Allocations[id]),
                            compiled_calls |-> CompiledTryMatchCalls(prepared, id) ])
    /\ UNCHANGED << flt_filter, flt_custom, flt_prepared, flt_backtrace, flt_response >>
    /\ UNCHANGED notFlt

FltNext ==
    \/ CallPrepareFilter
    \/ CallPrepareBacktraceFilter
    \/ CallTryMatch

-----------------------------------------------------------------------------
(* match_backtrace under the two caches of one handler_backtraces request *)

\* data's frames: frame.function().or_else( raw_function ) and frame.source(),
\* resolved by the interner.
Frames ==
    [ frame_id \in 1..3 |->
        CASE frame_id = 1 -> [ function |-> Some("malloc"), source |-> Some("alloc.c") ]
          [] frame_id = 2 -> [ function |-> Some("main"), source |-> Some("main.c") ]
          [] frame_id = 3 -> [ function |-> Some("malloc"), source |-> None ] ]

FrameIds == DOMAIN Frames

\* regex.is_match( text ): a compiled regex is the set of the texts it matches.
IsMatch(regex, text) == text \in regex

\* Mutant of CacheInsert: the opposite value is stored.
CacheInsertNegated(cache_map, frame_id, value) ==
    [ f \in DOMAIN cache_map \cup {frame_id} |-> IF f = frame_id THEN ~value ELSE cache_map[f] ]

\* Mutant of CacheInsert: nothing is stored.
CacheInsertForgets(cache_map, frame_id, value) == cache_map

\* HashMap::insert
CacheInsert(cache_map, frame_id, value) ==
    [ f \in DOMAIN cache_map \cup {frame_id} |-> IF f = frame_id THEN value ELSE cache_map[f] ]

\* The body of `for (frame_id, frame) in backtrace`, from the frame at the head
\* of `frames` on. st holds positive_matched, negative_matched, the two caches
\* and the count of regex.is_match calls.
RECURSIVE MatchFrames(_, _, _)
MatchFrames(st, filter, frames) ==
    IF frames = << >> THEN st
    ELSE
    LET frame_id == frames[1]
        frame == Frames[frame_id]
        check_negative == filter.negative_function_regex # None \/ filter.negative_source_regex # None
        cached == frame_id \in DOMAIN st.positive_cache
        check_positive == ~st.positive_matched /\ ~cached
        matched1 == IF st.positive_matched THEN TRUE
                    ELSE IF cached THEN st.positive_cache[frame_id]
                    ELSE FALSE
    IN
    IF matched1 /\ ~check_negative THEN [ st EXCEPT !.positive_matched = matched1 ]
    ELSE
    LET function == frame.function
        source == frame.source
        eval_function == check_positive /\ filter.function_regex # None /\ function # None
        eval_source == check_positive /\ filter.source_regex # None /\ source # None
        matched_function == IF filter.function_regex # None
                            THEN (IF function # None
                                  THEN IsMatch(Unwrap(filter.function_regex), Unwrap(function))
                                  ELSE FALSE)
                            ELSE TRUE
        matched_source == IF filter.source_regex # None
                          THEN (IF source # None
                                THEN IsMatch(Unwrap(filter.source_regex), Unwrap(source))
                                ELSE FALSE)
                          ELSE TRUE
        matched2 == IF check_positive THEN matched_function /\ matched_source ELSE matched1
        st2 == [ st EXCEPT
                   !.positive_matched = matched2,
                   !.positive_cache = IF check_positive
                                      THEN CacheInsert(@, frame_id, matched2) ELSE @,
                   !.evals = @ + (IF eval_function THEN 1 ELSE 0)
                               + (IF eval_source THEN 1 ELSE 0) ]
    IN
    IF ~check_negative THEN MatchFrames(st2, filter, Tail(frames))
    ELSE IF frame_id \in DOMAIN st2.negative_cache
    THEN IF st2.negative_cache[frame_id]
         THEN [ st2 EXCEPT !.negative_matched = TRUE ]
         ELSE MatchFrames(st2, filter, Tail(frames))
    ELSE
    LET eval_negative_function == filter.negative_function_regex # None /\ function # None
        hit_function == eval_negative_function
                        /\ IsMatch(Unwrap(filter.negative_function_regex), Unwrap(function))
        eval_negative_source == ~hit_function /\ filter.negative_source_regex # None
                                /\ source # None
        hit_source == eval_negative_source
                      /\ IsMatch(Unwrap(filter.negative_source_regex), Unwrap(source))
        st3 == [ st2 EXCEPT
                   !.negative_cache = CacheInsert(@, frame_id, hit_function \/ hit_source),
                   !.negative_matched = hit_function \/ hit_source,
                   !.evals = @ + (IF eval_negative_function THEN 1 ELSE 0)
                               + (IF eval_negative_source THEN 1 ELSE 0) ]
    IN IF hit_function \/ hit_source THEN st3 ELSE MatchFrames(st3, filter, Tail(frames))

\* match_backtrace: the result, the caches it leaves and the regex.is_match
\* calls it made.
MatchBacktrace(pcache, ncache, filter, backtrace) ==
    IF Len(backtrace) < filter.backtrace_depth_min \/ Len(backtrace) > filter.backtrace_depth_max
    THEN [ result |-> FALSE, positive_cache |-> pcache, negative_cache |-> ncache, evals |-> 0 ]
    ELSE LET st == MatchFrames(
                     [ positive_matched |-> filter.function_regex = None /\ filter.source_regex = None,
                       negative_matched |-> FALSE,
                       positive_cache |-> pcache,
                       negative_cache |-> ncache,
                       evals |-> 0 ],
                     filter, backtrace)
         IN [ result |-> st.positive_matched /\ ~st.negative_matched,
              positive_cache |-> st.positive_cache,
              negative_cache |-> st.negative_cache,
              evals |-> st.evals ]

\* backtrace_depth_max.unwrap_or( std::u32::MAX ): no limit. The number is the
\* largest the model checker's integers hold; no backtrace is that long.
NoDepthLimit == 2147483647

\* The prepared filters of the model: each regex absent or one of two, the
\* depth limits absent (0 and no limit) or 1 and 1.
BacktraceFilters ==
    [ backtrace_depth_min : { 0, 1 },
      backtrace_depth_max : { 1, NoDepthLimit },
      function_regex : { None, Some({ "malloc" }) },
      source_regex : { None, Some({ "alloc.c" }) },
      negative_function_regex : { None, Some({ "main" }) },
      negative_source_regex : { None, Some({ "alloc.c" }) } ]

\* data.all_backtraces(): the backtraces a call can be given.
Backtraces == UNION { [ 1..n -> FrameIds ] : n \in 0..MaxDepth }

BtIdle ==
    /\ bt_filter = [ backtrace_depth_min |-> 0, backtrace_depth_max |-> NoDepthLimit,
                     function_regex |-> None, source_regex |-> None,
                     negative_function_regex |-> None, negative_source_regex |-> None ]
    /\ positive_cache = << >>
    /\ negative_cache = << >>
    /\ bt_evals = 0
    /\ bt_scanned = {}
    /\ bt_calls = 0
    /\ bt_last = None

\* let mut positive_cache = HashMap::new(); let mut negative_cache = HashMap::new();
BtInit ==
    /\ bt_filter \in BacktraceFilters
    /\ positive_cache = << >>
    /\ negative_cache = << >>
    /\ bt_evals = 0
    /\ bt_scanned = {}
    /\ bt_calls = 0
    /\ bt_last = None

\* One match_backtrace call of the counting pass or of the streaming pass (whose
\* caches are clones of the counting pass's): on any backtrace.
CallMatchBacktrace ==
    /\ bt_calls < MaxCalls
    /\ \E backtrace \in Backtraces :
        LET got == MatchBacktrace(positive_cache, negative_cache, bt_filter, backtrace) IN
        /\ positive_cache' = got.positive_cache
        /\ negative_cache' = got.negative_cache
        /\ bt_evals' = bt_evals + got.evals
        /\ bt_scanned' = bt_scanned \cup Range(backtrace)
        /\ bt_last' = Some([ backtrace |-> backtrace, result |-> got.result ])
    /\ bt_calls' = bt_calls + 1
    /\ UNCHANGED bt_filter
    /\ UNCHANGED notBt

BtNext ==
    \/ CallMatchBacktrace

-----------------------------------------------------------------------------
(* get_fragmentation_timeline (lib.rs) *)

\* u64::MAX, scaled to 20 bits: no address and no second of the model reaches it.
U64Max == 1048575
U64Modulus == U64Max + 1

\* a - b and a * b on u64, wrapping as the release build does.
U64Sub(a, b) == (a - b) % U64Modulus
U64Mul(a, b) == (a * b) % U64Modulus

\* allocation.actual_range( &data ): start..end with start < end.
AddressRanges ==
    { r \in [ start : 1..MaxAddress, end : 2..(MaxAddress + 1) ] : r.start < r.end }

\* What in_main_arena(), is_mmaped() and is_jemalloc() answer for the
\* allocations of the capture: one kind that passes the three tests, and one
\* kind for each test it can fail alone.
AllocationFlags ==
    { [ in_main_arena |-> TRUE,  is_mmaped |-> FALSE, is_jemalloc |-> FALSE ],
      [ in_main_arena |-> FALSE, is_mmaped |-> FALSE, is_jemalloc |-> FALSE ],
      [ in_main_arena |-> TRUE,  is_mmaped |-> TRUE,  is_jemalloc |-> FALSE ],
      [ in_main_arena |-> TRUE,  is_mmaped |-> FALSE, is_jemalloc |-> TRUE ] }

\* An allocation of the capture: its range and its flags.
FragAllocations == [ range : AddressRanges, flags : AllocationFlags ]

\* Mutant of is_matched: jemalloc allocations pass.
IsMatchedWithJemalloc(allocation) ==
    allocation.flags.in_main_arena /\ ~allocation.flags.is_mmaped

\* allocation.in_main_arena() && !allocation.is_mmaped() && !allocation.is_jemalloc()
is_matched(allocation) ==
    /\ allocation.flags.in_main_arena
    /\ ~allocation.flags.is_mmaped
    /\ ~allocation.flags.is_jemalloc

Overlap(r1, r2) == r1.start < r2.end /\ r2.start < r1.end

\* *address_map.entry( address ).or_insert( 0 ) += delta
EntryAdd(map, address, delta) ==
    [ a \in DOMAIN map \cup {address} |->
        IF a = address THEN (IF a \in DOMAIN map THEN map[a] ELSE 0) + delta ELSE map[a] ]

RECURSIVE trim_front(_)
trim_front(map) ==
    IF DOMAIN map = {} THEN map
    ELSE LET address == MinOf(DOMAIN map) IN
         IF map[address] = 0
         THEN trim_front([ a \in DOMAIN map \ {address} |-> map[a] ])
         ELSE map

RECURSIVE trim_back(_)
trim_back(map) ==
    IF DOMAIN map = {} THEN map
    ELSE LET address == Max(DOMAIN map) IN
         IF map[address] = 0
         THEN trim_back([ a \in DOMAIN map \ {address} |-> map[a] ])
         ELSE map

min(map) ==
    LET nonzero == { a \in DOMAIN map : map[a] # 0 } IN
    IF nonzero = {} THEN U64Max ELSE MinOf(nonzero)

max(map) ==
    LET nonzero == { a \in DOMAIN map : map[a] # 0 } IN
    IF nonzero = {} THEN 0 ELSE Max(nonzero)

\* The local variables the loop body updates for an allocation.
FragState ==
    [ address_map |-> address_map,
      current_address_min |-> current_address_min,
      current_address_max |-> current_address_max,
      current_used_address_space |-> current_used_address_space ]

\* The Allocation arm, and the new_allocation half of the Reallocation arm.
Inserted(st, range) ==
    [ address_map |-> EntryAdd(EntryAdd(st.address_map, range.start, 1), range.end, 1),
      current_used_address_space |->
          (st.current_used_address_space + (range.end - range.start)) % U64Modulus,
      current_address_min |->
          IF range.start < st.current_address_min THEN range.start
          ELSE st.current_address_min,
      current_address_max |->
          IF range.end > st.current_address_max THEN range.end
          ELSE st.current_address_max ]

\* Mutant of Removed: the bounds are left as they were.
RemovedKeepsBounds(st, range) ==
    [ address_map |-> EntryAdd(EntryAdd(st.address_map, range.start, -1), range.end, -1),
      current_used_address_space |->
          U64Sub(st.current_used_address_space, range.end - range.start),
      current_address_min |-> st.current_address_min,
      current_address_max |-> st.current_address_max ]

\* The Deallocation arm, and the old_allocation half of the Reallocation arm.
Removed(st, range) ==
    LET counted == EntryAdd(EntryAdd(st.address_map, range.start, -1), range.end, -1)
        front == IF range.start = st.current_address_min THEN trim_front(counted)
                 ELSE counted
        back == IF range.end = st.current_address_max THEN trim_back(front) ELSE front
    IN
    [ address_map |-> back,
      current_used_address_space |->
          U64Sub(st.current_used_address_space, range.end - range.start),
      current_address_min |->
          IF range.start = st.current_address_min THEN min(front)
          ELSE st.current_address_min,
      current_address_max |->
          IF range.end = st.current_address_max THEN max(back)
          ELSE st.current_address_max ]

\* Mutant of Points: the gap points carry 0 instead of the last value.
PointsGapCarriesZero(timestamp) ==
    LET gap == IF frag_x # U64Max /\ frag_x + 1 # timestamp
               THEN << U64Mul(frag_x + 1, 1000) >>
                    \o (IF frag_x + 2 # timestamp
                        THEN << U64Mul(U64Sub(timestamp, 1), 1000) >> ELSE << >>)
               ELSE << >>
    IN
    IF timestamp # frag_x
    THEN [ xs |-> xs \o gap \o << timestamp * 1000 >>,
           fragmentation |-> fragmentation \o [ i \in 1..Len(gap) |-> 0 ] \o << 0 >> ]
    ELSE [ xs |-> xs, fragmentation |-> fragmentation ]

\* Mutant of Points: the second gap point is pushed before the first.
PointsGapSwapped(timestamp) ==
    LET gap == IF frag_x # U64Max /\ frag_x + 1 # timestamp
               THEN (IF frag_x + 2 # timestamp THEN << U64Mul(U64Sub(timestamp, 1), 1000) >> ELSE << >>)
                    \o << U64Mul(frag_x + 1, 1000) >>
               ELSE << >>
    IN
    IF timestamp # frag_x
    THEN [ xs |-> xs \o gap \o << timestamp * 1000 >>,
           fragmentation |-> fragmentation
               \o [ i \in 1..Len(gap) |-> fragmentation[Len(fragmentation)] ] \o << 0 >> ]
    ELSE [ xs |-> xs, fragmentation |-> fragmentation ]

\* Mutant of Points: every operation pushes a point, whatever its second.
PointsEveryOperation(timestamp) ==
    [ xs |-> Append(xs, timestamp * 1000), fragmentation |-> Append(fragmentation, 0) ]

\* if timestamp != x { .. }: the points pushed for an operation of second
\* `timestamp`, the gap points carrying the last fragmentation value.
Points(timestamp) ==
    LET gap == IF frag_x # U64Max /\ frag_x + 1 # timestamp
               THEN << U64Mul(frag_x + 1, 1000) >>
                    \o (IF frag_x + 2 # timestamp THEN << U64Mul(U64Sub(timestamp, 1), 1000) >> ELSE << >>)
               ELSE << >>
    IN
    IF timestamp # frag_x
    THEN [ xs |-> xs \o gap \o << timestamp * 1000 >>,
           fragmentation |-> fragmentation
               \o [ i \in 1..Len(gap) |-> fragmentation[Len(fragmentation)] ] \o << 0 >> ]
    ELSE [ xs |-> xs, fragmentation |-> fragmentation ]

\* The tail of the loop body: the points of the operation's second, then the
\* value of the last point, range - current_used_address_space.
Record(st, timestamp) ==
    LET points == Points(timestamp)
        range == IF st.current_address_max = 0 THEN 0
                 ELSE U64Sub(st.current_address_max, st.current_address_min)
    IN
    /\ address_map' = st.address_map
    /\ current_address_min' = st.current_address_min
    /\ current_address_max' = st.current_address_max
    /\ current_used_address_space' = st.current_used_address_space
    /\ frag_x' = timestamp
    /\ frag_chronological' = (frag_chronological /\ (frag_x = U64Max \/ timestamp >= frag_x))
    /\ xs' = points.xs
    /\ fragmentation' = [ points.fragmentation EXCEPT
            ![Len(points.fragmentation)] = U64Sub(range, st.current_used_address_space) ]

\* `continue`: the operation changes nothing.
Skipped ==
    UNCHANGED << address_map, current_address_min, current_address_max,
                 current_used_address_space, frag_x, xs, fragmentation,
                 frag_chronological >>

\* The seconds an operation of the stream can carry, none before the capture
\* starts: nothing here orders data.operations() by timestamp.
Seconds == initial_timestamp..MaxSecs

\* data.initial_timestamp().as_secs()
InitialSeconds == 0..MaxInitial

\* let mut x = (-1_i32) as u64; ..; before the first operation.
FragLocals ==
    /\ address_map = << >>
    /\ current_address_min = U64Max
    /\ current_address_max = 0
    /\ current_used_address_space = 0
    /\ frag_x = U64Max
    /\ xs = << >>
    /\ fragmentation = << >>
    /\ frag_live = {}
    /\ frag_ops = 0
    /\ frag_chronological = TRUE
    /\ frag_last = [ op |-> "none", touched_min |-> FALSE, touched_max |-> FALSE ]

\* No timeline is asked for.
FragInit ==
    /\ FragLocals
    /\ initial_timestamp = 0

\* The timeline of a capture that starts at any second of the model.
FragStart ==
    /\ FragLocals
    /\ initial_timestamp \in InitialSeconds

\* for op in data.operations(): the streams of the model have at most MaxOps
\* operations, and an operation of an earlier second than the point before it
\* is the last of its stream.
MoreOperations == frag_ops < MaxOps /\ frag_chronological

\* One iteration on Operation::Allocation.
OpAllocation ==
    /\ MoreOperations
    /\ \E allocation \in FragAllocations :
        /\ \A live \in frag_live : ~Overlap(live.range, allocation.range)
        /\ frag_live' = frag_live \cup {allocation}
        /\ IF ~is_matched(allocation) THEN Skipped
           ELSE \E timestamp \in Seconds :
                    Record(Inserted(FragState, allocation.range), timestamp)
    /\ frag_ops' = frag_ops + 1
    /\ UNCHANGED initial_timestamp
    /\ frag_last' = [ op |-> "Allocation", touched_min |-> FALSE, touched_max |-> FALSE ]
    /\ UNCHANGED notFrag

\* One iteration on Operation::Deallocation.
OpDeallocation ==
    /\ MoreOperations
    /\ \E allocation \in frag_live :
        /\ frag_live' = frag_live \ {allocation}
        /\ IF ~is_matched(allocation) THEN Skipped
           ELSE \E timestamp \in Seconds :
                    Record(Removed(FragState, allocation.range), timestamp)
        /\ frag_last' =
            [ op |-> "Deallocation",
              touched_min |-> is_matched(allocation)
                                /\ allocation.range.start = current_address_min,
              touched_max |-> is_matched(allocation)
                                /\ allocation.range.end = current_address_max ]
    /\ frag_ops' = frag_ops + 1
    /\ UNCHANGED initial_timestamp
    /\ UNCHANGED notFrag

\* One iteration on Operation::Reallocation.
OpReallocation ==
    /\ MoreOperations
    /\ \E old_allocation \in frag_live, new_allocation \in FragAllocations :
        LET st1 == IF is_matched(old_allocation)
                   THEN Removed(FragState, old_allocation.range) ELSE FragState
            st2 == IF is_matched(new_allocation)
                   THEN Inserted(st1, new_allocation.range) ELSE st1
        IN
        /\ \A live \in frag_live \ {old_allocation} :
              ~Overlap(live.range, new_allocation.range)
        /\ frag_live' = (frag_live \ {old_allocation}) \cup {new_allocation}
        /\ IF ~is_matched(new_allocation) /\ ~is_matched(old_allocation) THEN Skipped
           ELSE \E timestamp \in Seconds : Record(st2, timestamp)
        /\ frag_last' =
            [ op |-> "Reallocation",
              touched_min |-> is_matched(old_allocation)
                                /\ old_allocation.range.start = current_address_min,
              touched_max |-> is_matched(old_allocation)
                                /\ old_allocation.range.end = current_address_max ]
    /\ frag_ops' = frag_ops + 1
    /\ UNCHANGED initial_timestamp
    /\ UNCHANGED notFrag

FragNext ==
    \/ OpAllocation
    \/ OpDeallocation
    \/ OpReallocation

-----------------------------------------------------------------------------
(* Capture resolution (lib.rs) *)

CaptureIds == 1..MaxCaptures

\* The text of a capture id in the URL.
IdTexts == << "1", "2", "3", "4", "5" >>
IdText(id) == IdTexts[id]

\* The {id} segments of the model: the sentinel, the text of every capture
\* id, and two texts that are no capture id.
Segments == { "last", "", "zz" } \cup { IdText(id) : id \in CaptureIds }

\* id.parse::< DataId >(): the id the text stands for, if any.
DataIdParse(segment) ==
    IF \E id \in CaptureIds : segment = IdText(id)
    THEN Ok(CHOOSE id \in CaptureIds : segment = IdText(id))
    ELSE Err("parse error")

\* ErrorNotFound( "data not found" )
ErrorNotFound(message) == [ status |-> 404, message |-> message ]

\* State::last_id
last_id == IF data_ids = << >> THEN None ELSE Some(data_ids[Len(data_ids)])

\* Mutant of get_data_id: "last" is the capture registered first.
GetDataIdFirst(segment) ==
    IF segment = "last"
    THEN IF data_ids = << >> THEN Err(ErrorNotFound("data not found"))
         ELSE Ok(data_ids[1])
    ELSE LET id == DataIdParse(segment) IN
         IF ~id.ok THEN Err(ErrorNotFound("data not found"))
         ELSE IF id.value \notin data THEN Err(ErrorNotFound("data not found"))
         ELSE Ok(id.value)

get_data_id(segment) ==
    IF segment = "last"
    THEN IF last_id = None THEN Err(ErrorNotFound("data not found"))
         ELSE Ok(Unwrap(last_id))
    ELSE LET id == DataIdParse(segment) IN
         IF ~id.ok THEN Err(ErrorNotFound("data not found"))
         ELSE IF id.value \notin data THEN Err(ErrorNotFound("data not found"))
         ELSE Ok(id.value)

\* State::new, and no request yet.
ResInit ==
    /\ data = {}
    /\ data_ids = << >>
    /\ res_segment = None
    /\ res_response = None
    /\ res_spawned = 0
    /\ res_calls = 0
    /\ res_newest = None
    /\ res_backtrace = None

\* State::add_data, while the server is set up: the state is shared
\* immutably once requests are served.
AddData ==
    /\ res_calls = 0
    /\ \E id \in CaptureIds :
        IF id \in data
        THEN UNCHANGED << data, data_ids, res_newest >>
        ELSE /\ data_ids' = Append(data_ids, id)
             /\ data' = data \cup {id}
             /\ res_newest' = Some(id)
    /\ UNCHANGED << res_segment, res_response, res_spawned, res_calls, res_backtrace >>
    /\ UNCHANGED notRes

\* get_data, the resolution of the handlers that answer without a worker.
CallGetData ==
    /\ res_calls < MaxRequests
    /\ \E segment \in Segments :
        /\ res_segment' = Some(segment)
        /\ res_response' = Some([ worker |-> FALSE, resolved |-> get_data_id(segment),
                                  spawned |-> FALSE ])
    /\ res_calls' = res_calls + 1
    /\ UNCHANGED << data, data_ids, res_spawned, res_newest, res_backtrace >>
    /\ UNCHANGED notRes

\* async_data_handler up to its return: get_data_id( &req )? comes before
\* thread::spawn.
CallAsyncDataHandler ==
    /\ res_calls < MaxRequests
    /\ \E segment \in Segments :
        LET data_id == get_data_id(segment) IN
        /\ res_segment' = Some(segment)
        /\ res_response' = Some([ worker |-> TRUE, resolved |-> data_id,
                                  spawned |-> data_id.ok ])
        /\ res_spawned' = IF data_id.ok THEN res_spawned + 1 ELSE res_spawned
    /\ res_calls' = res_calls + 1
    /\ UNCHANGED << data, data_ids, res_newest, res_backtrace >>
    /\ UNCHANGED notRes

\* The backtraces every capture of the model holds.
StoredBacktraces == { Allocations[id].backtrace : id \in AllocationIds }

\* The {backtrace_id} segments of the model, parsed: the stored ids and one
\* that is not stored.
RequestedBacktraces == StoredBacktraces \cup {99}

\* data.get_backtrace( backtrace_id ): the ways the call can end. Nothing
\* here says what it does with an id that is not stored: it panics, or it
\* returns an iterator over some frames.
GetBacktrace(backtrace_id) ==
    IF backtrace_id \in StoredBacktraces
    THEN { [ panicked |-> FALSE, frames |-> << backtrace_id >> ] }
    ELSE { [ panicked |-> TRUE, frames |-> << >> ],
           [ panicked |-> FALSE, frames |-> << >> ] }

\* handler_backtrace: get_data( &req )?, then the frames of
\* data.get_backtrace( backtrace_id ) in HttpResponse::Ok().json( .. ).
CallHandlerBacktrace ==
    /\ res_calls < MaxRequests
    /\ \E segment \in Segments, backtrace_id \in RequestedBacktraces :
        LET data_id == get_data_id(segment) IN
        /\ res_segment' = Some(segment)
        /\ res_response' = Some([ worker |-> FALSE, resolved |-> data_id,
                                  spawned |-> FALSE ])
        /\ IF ~data_id.ok
           THEN res_backtrace' = Some([ backtrace_id |-> backtrace_id,
                    panicked |-> FALSE, status |-> data_id.error.status ])
           ELSE \E backtrace \in GetBacktrace(backtrace_id) :
                    res_backtrace' = Some([ backtrace_id |-> backtrace_id,
                        panicked |-> backtrace.panicked,
                        status |-> IF backtrace.panicked THEN 0 ELSE 200 ])
    /\ res_calls' = res_calls + 1
    /\ UNCHANGED << data, data_ids, res_spawned, res_newest >>
    /\ UNCHANGED notRes

ResNext ==
    \/ AddData
    \/ CallGetData
    \/ CallAsyncDataHandler
    \/ CallHandlerBacktrace

-----------------------------------------------------------------------------
(* Workers and the byte channel (lib.rs) *)

\* The handlers that answer through a worker and a byte channel.
WorkerHandlers ==
    { "allocations", "allocation_groups", "tree", "backtraces", "regions", "exports",
      "script_files" }

\* What the worker does with a failed write: `let _ = ..` returns from the
\* closure, `.unwrap()` panics. Either ends the thread.
OnWriteError(handler) ==
    IF handler \in { "tree", "script_files" } THEN "panicked" ELSE "returned"

\* Mutant of ChannelWrite: a dropped receiver is not noticed.
ChannelWriteIgnoresDrop(alive, buffered) ==
    IF buffered < ChannelCapacity THEN "ok" ELSE "block"

\* A write on the sender half: it fails once the receiver half is dropped,
\* blocks while the buffer is full, and otherwise buffers the chunk.
ChannelWrite(alive, buffered) ==
    IF ~alive THEN "err"
    ELSE IF buffered < ChannelCapacity THEN "ok" ELSE "block"

\* No request is being answered through a worker.
ChanInit ==
    /\ ch_handler = "none"
    /\ ch_pc = "idle"
    /\ ch_left = 0
    /\ ch_buffered = 0
    /\ ch_rx_alive = TRUE
    /\ ch_after_drop = 0

\* let (tx, rx) = byte_channel(); ..; thread::spawn( .. ): the handler
\* returns the receiver half as the body and the worker starts.
SpawnWorker ==
    /\ ch_pc = "idle"
    /\ \E handler \in WorkerHandlers, writes \in 0..MaxWrites :
        /\ ch_handler' = handler
        /\ ch_left' = writes
    /\ ch_pc' = "computing"
    /\ UNCHANGED << ch_buffered, ch_rx_alive, ch_after_drop >>
    /\ UNCHANGED notChan

\* The worker's work before its first write (filtering, grouping, building
\* the tree): it ends, and it does not look at the channel.
WorkerCompute ==
    /\ ch_pc = "computing"
    /\ ch_pc' = IF ch_left = 0 THEN "returned" ELSE "writing"
    /\ UNCHANGED << ch_handler, ch_left, ch_buffered, ch_rx_alive, ch_after_drop >>
    /\ UNCHANGED notChan

\* One write of the worker; a blocked write is no step.
WorkerWrite ==
    /\ ch_pc = "writing"
    /\ LET written == ChannelWrite(ch_rx_alive, ch_buffered) IN
       /\ written # "block"
       /\ IF written = "err"
          THEN /\ ch_pc' = OnWriteError(ch_handler)
               /\ UNCHANGED << ch_left, ch_buffered, ch_after_drop >>
          ELSE /\ ch_buffered' = ch_buffered + 1
               /\ ch_left' = ch_left - 1
               /\ ch_pc' = IF ch_left = 1 THEN "returned" ELSE "writing"
               /\ ch_after_drop' = IF ch_rx_alive THEN ch_after_drop
                                   ELSE ch_after_drop + 1
    /\ UNCHANGED << ch_handler, ch_rx_alive >>
    /\ UNCHANGED notChan

\* The HTTP framework pulls a chunk of the body.
ClientRead ==
    /\ ch_pc # "idle"
    /\ ch_rx_alive
    /\ ch_buffered > 0
    /\ ch_buffered' = ch_buffered - 1
    /\ UNCHANGED << ch_handler, ch_pc, ch_left, ch_rx_alive, ch_after_drop >>
    /\ UNCHANGED notChan

\* The client drops the connection: the receiver half is dropped.
ClientDrop ==
    /\ ch_pc # "idle"
    /\ ch_rx_alive
    /\ ch_rx_alive' = FALSE
    /\ UNCHANGED << ch_handler, ch_pc, ch_left, ch_buffered, ch_after_drop >>
    /\ UNCHANGED notChan

ChanNext ==
    \/ SpawnWorker
    \/ WorkerCompute
    \/ WorkerWrite
    \/ ClientRead
    \/ ClientDrop

-----------------------------------------------------------------------------
(* generate_regions (lib.rs) *)

\* itertools' coalesce with the closure of generate_regions: `range` is the
\* item held back, `rest` the items still to come.
RECURSIVE Coalesce(_, _)
Coalesce(range, rest) ==
    IF rest = << >> THEN << range >>
    ELSE LET next_range == Head(rest) IN
         IF next_range.start <= range.end
         THEN Coalesce([ range EXCEPT !.end = next_range.end ], Tail(rest))
         ELSE << range >> \o Coalesce(next_range, Tail(rest))

\* The regions closure: the matched ranges coalesced, each as [start, end].
Regions(ranges) ==
    IF ranges = << >> THEN << >>
    ELSE LET merged == Coalesce(Head(ranges), Tail(ranges)) IN
         [ i \in 1..Len(merged) |-> << merged[i].start, merged[i].end >> ]

\* data.alloc_sorted_by_address( None, None ), filtered: the ranges of up to
\* MaxMatched allocations in the order of their start addresses. The capture
\* holds every allocation ever made, so ranges can repeat and overlap.
MatchedByAddress ==
    { ranges \in UNION { [ 1..n -> AddressRanges ] : n \in 0..MaxMatched } :
        \A i \in 1..(Len(ranges) - 1) : ranges[i].start <= ranges[i + 1].start }

RegIdle ==
    /\ reg_input = << >>
    /\ reg_output = None

RegInit ==
    /\ reg_input \in MatchedByAddress
    /\ reg_output = None

\* The regions of one response, as the serializer pulls them.
CallGenerateRegions ==
    /\ reg_output = None
    /\ reg_output' = Some(Regions(reg_input))
    /\ UNCHANGED reg_input
    /\ UNCHANGED notReg

RegNext ==
    \/ CallGenerateRegions

-----------------------------------------------------------------------------
(* The two mutexes of State, as the handlers take them (lib.rs) *)

\* The handlers that lock a mutex of State.
LockingHandlers == { "allocation_groups", "execute_script", "script_files" }

\* No request is running.
LockInit ==
    /\ cache_mutex = None
    /\ generated_mutex = None
    /\ lk_request = [ t \in Threads |-> "none" ]
    /\ lk_pc = [ t \in Threads |-> "idle" ]
    /\ lk_left = [ t \in Threads |-> 0 ]

\* A request arrives. handler_allocation_groups goes to the lookup in the
\* group cache, handler_execute_script runs the script, handler_script_files
\* goes to the generated files.
StartRequest(t) ==
    /\ lk_pc[t] = "idle"
    /\ \E handler \in LockingHandlers, images \in 0..MaxImages :
        /\ lk_request' = [ lk_request EXCEPT ![t] = handler ]
        /\ lk_left' = [ lk_left EXCEPT ![t] = IF handler = "script_files" THEN 0 ELSE images ]
        /\ lk_pc' = [ lk_pc EXCEPT ![t] =
              CASE handler = "allocation_groups" -> "lookup"
                [] handler = "execute_script" -> "script"
                [] handler = "script_files" -> "generated_wait" ]
    /\ UNCHANGED << cache_mutex, generated_mutex >>
    /\ UNCHANGED notLock

\* req.state().allocation_group_cache.lock() of the lookup
LockCacheForGet(t) ==
    /\ lk_pc[t] = "lookup"
    /\ cache_mutex = None
    /\ cache_mutex' = Some(t)
    /\ lk_pc' = [ lk_pc EXCEPT ![t] = "get" ]
    /\ UNCHANGED << generated_mutex, lk_request, lk_left >>
    /\ UNCHANGED notLock

\* Mutant of UnlockAfterGet: the guard of the lookup lives on into the build.
KeepCacheLockedAfterGet(t) ==
    /\ lk_pc[t] = "get"
    /\ lk_pc' = [ lk_pc EXCEPT ![t] = "build" ]
    /\ UNCHANGED << cache_mutex, generated_mutex, lk_request, lk_left >>
    /\ UNCHANGED notLock

\* .get( &key ).cloned(); the guard is a temporary of the statement. On a hit
\* the handler goes on to spawn its worker, on a miss it builds.
UnlockAfterGet(t) ==
    /\ lk_pc[t] = "get"
    /\ cache_mutex' = None
    /\ \E hit \in BOOLEAN :
        lk_pc' = [ lk_pc EXCEPT ![t] = IF hit THEN "respond" ELSE "build" ]
    /\ UNCHANGED << generated_mutex, lk_request, lk_left >>
    /\ UNCHANGED notLock

\* AllocationGroups::new and sort_by: the thread is at "build" while they run.
BuildAndSort(t) ==
    /\ lk_pc[t] = "build"
    /\ lk_pc' = [ lk_pc EXCEPT ![t] = "put_wait" ]
    /\ UNCHANGED << cache_mutex, generated_mutex, lk_request, lk_left >>
    /\ UNCHANGED notLock

\* req.state().allocation_group_cache.lock() of the put
LockCacheForPut(t) ==
    /\ lk_pc[t] = "put_wait"
    /\ cache_mutex = None
    /\ cache_mutex' = Some(t)
    /\ lk_pc' = [ lk_pc EXCEPT ![t] = "put" ]
    /\ UNCHANGED << generated_mutex, lk_request, lk_left >>
    /\ UNCHANGED notLock

\* .put( key, allocation_groups.clone() ); the guard is a temporary.
UnlockAfterPut(t) ==
    /\ lk_pc[t] = "put"
    /\ cache_mutex' = None
    /\ lk_pc' = [ lk_pc EXCEPT ![t] = "respond" ]
    /\ UNCHANGED << generated_mutex, lk_request, lk_left >>
    /\ UNCHANGED notLock

\* async_data_handler: the worker starts on the response. With
\* generate_graphs it runs the graph script of a group first.
StartResponse(t) ==
    /\ lk_pc[t] = "respond"
    /\ lk_pc' = [ lk_pc EXCEPT ![t] = IF lk_left[t] > 0 THEN "script" ELSE "write" ]
    /\ UNCHANGED << cache_mutex, generated_mutex, lk_request, lk_left >>
    /\ UNCHANGED notLock

\* engine.run( .. ): the thread is at "script" while the script runs.
RunScript(t) ==
    /\ lk_pc[t] = "script"
    /\ lk_pc' = [ lk_pc EXCEPT ![t] = "generated_wait" ]
    /\ UNCHANGED << cache_mutex, generated_mutex, lk_request, lk_left >>
    /\ UNCHANGED notLock

\* generated_files.lock()
LockGenerated(t) ==
    /\ lk_pc[t] = "generated_wait"
    /\ generated_mutex = None
    /\ generated_mutex' = Some(t)
    /\ lk_pc' = [ lk_pc EXCEPT ![t] = "generated" ]
    /\ UNCHANGED << cache_mutex, lk_request, lk_left >>
    /\ UNCHANGED notLock

\* The guard of generated_files is dropped: in get_allocation_groups at the
\* end of the match arm, after the purge and the add_file of one image; in
\* handler_execute_script by std::mem::drop, after the purge and the add_file
\* of all images; in handler_script_files at the end of the match on the entry.
UnlockGenerated(t) ==
    /\ lk_pc[t] = "generated"
    /\ generated_mutex' = None
    /\ IF lk_request[t] = "allocation_groups"
       THEN /\ lk_left' = [ lk_left EXCEPT ![t] = lk_left[t] - 1 ]
            /\ \E more \in BOOLEAN :
                lk_pc' = [ lk_pc EXCEPT ![t] =
                    IF more /\ lk_left[t] > 1 THEN "generated_wait" ELSE "write" ]
       ELSE /\ lk_left' = [ lk_left EXCEPT ![t] = 0 ]
            /\ lk_pc' = [ lk_pc EXCEPT ![t] =
                    IF lk_request[t] = "script_files" THEN "write" ELSE "done" ]
    /\ UNCHANGED << cache_mutex, lk_request >>
    /\ UNCHANGED notLock

\* Bytes are written to the byte channel: the thread is at "write" while it
\* writes. The worker of allocation_groups then goes on to the next group.
WriteBytes(t) ==
    /\ lk_pc[t] = "write"
    /\ lk_pc' = [ lk_pc EXCEPT ![t] =
          IF lk_request[t] = "allocation_groups" /\ lk_left[t] > 0 THEN "script"
          ELSE "done" ]
    /\ UNCHANGED << cache_mutex, generated_mutex, lk_request, lk_left >>
    /\ UNCHANGED notLock

\* The request is over; the thread serves the next.
EndRequest(t) ==
    /\ lk_pc[t] = "done"
    /\ lk_pc' = [ lk_pc EXCEPT ![t] = "idle" ]
    /\ lk_request' = [ lk_request EXCEPT ![t] = "none" ]
    /\ UNCHANGED << cache_mutex, generated_mutex, lk_left >>
    /\ UNCHANGED notLock

LockNext ==
    \E t \in Threads :
        \/ StartRequest(t)
        \/ LockCacheForGet(t)
        \/ UnlockAfterGet(t)
        \/ BuildAndSort(t)
        \/ LockCacheForPut(t)
        \/ UnlockAfterPut(t)
        \/ StartResponse(t)
        \/ RunScript(t)
        \/ LockGenerated(t)
        \/ UnlockGenerated(t)
        \/ WriteBytes(t)
        \/ EndRequest(t)

-----------------------------------------------------------------------------
(* The cached AllocationGroups as shared objects (lib.rs:950-1043) *)

\* The requests made here: the default one, one per order with an explicit
\* sort key, and one with a custom filter.
ArcRequests ==
    { Request(AllocFilter(None, None, None), None, None, None),
      Request(AllocFilter(None, None, Some(Percent(100))), None, Some("Size"), Some("Dsc")),
      Request(AllocFilter(None, None, None), Some("only_first_backtraces"), None, None) }

\* No request is running and nothing was built.
ArcInit ==
    /\ arc_heap = << >>
    /\ arc_cache = << >>
    /\ arc_pc = [ t \in Threads |-> "idle" ]
    /\ arc_request = [ t \in Threads |-> None ]
    /\ arc_groups = [ t \in Threads |-> None ]
    /\ arc_shared = [ t \in Threads |-> 0 ]
    /\ arc_seen = [ t \in Threads |-> << >> ]

\* allocation_group_cache.lock().get( &key ).cloned(): on a hit the handler's
\* allocation_groups is the cached pointer, on a miss the handler builds.
ArcLookup(t) ==
    /\ arc_pc[t] = "idle"
    /\ \E request \in ArcRequests :
        LET got == LruGet(arc_cache, AllocationGroupsKey(request)) IN
        /\ got.value = None => Len(arc_heap) < MaxObjects
        /\ arc_cache' = got.lru
        /\ arc_request' = [ arc_request EXCEPT ![t] = Some(request) ]
        /\ arc_shared' = [ arc_shared EXCEPT ![t] =
              IF got.value = None THEN 0 ELSE Unwrap(got.value) ]
        /\ arc_pc' = [ arc_pc EXCEPT ![t] = IF got.value = None THEN "new" ELSE "respond" ]
    /\ UNCHANGED << arc_heap, arc_groups, arc_seen >>
    /\ UNCHANGED notArc

\* let mut groups = AllocationGroups::new( iter );
ArcNew(t) ==
    /\ arc_pc[t] = "new"
    /\ \E built \in AllocationGroupsNew(NewInput(Matched(Unwrap(arc_request[t])))) :
        arc_groups' = [ arc_groups EXCEPT ![t] = Some(built) ]
    /\ arc_pc' = [ arc_pc EXCEPT ![t] = "sort" ]
    /\ UNCHANGED << arc_heap, arc_cache, arc_request, arc_shared, arc_seen >>
    /\ UNCHANGED notArc

\* sort_by( data, &mut groups, key.order, .. ): the sort and the reverse, in
\* place on the handler's own value.
ArcSort(t) ==
    /\ arc_pc[t] = "sort"
    /\ LET key == AllocationGroupsKey(Unwrap(arc_request[t])) IN
        arc_groups' = [ arc_groups EXCEPT ![t] =
            Some(SortBy(Unwrap(arc_groups[t]), key.order, key.sort_by)) ]
    /\ arc_pc' = [ arc_pc EXCEPT ![t] = "put" ]
    /\ UNCHANGED << arc_heap, arc_cache, arc_request, arc_shared, arc_seen >>
    /\ UNCHANGED notArc

\* allocation_groups = Arc::new( groups ); allocation_group_cache.lock().put(
\* key, allocation_groups.clone() ): the value moves into a new shared object.
\* `installed` is history: the object's contents when it was put.
ArcPut(t) ==
    /\ arc_pc[t] = "put"
    /\ LET request == Unwrap(arc_request[t])
           pointer == Len(arc_heap) + 1
       IN /\ arc_heap' = Append(arc_heap, [ groups |-> Unwrap(arc_groups[t]),
                                            installed |-> Unwrap(arc_groups[t]),
                                            request |-> request ])
          /\ arc_cache' = LruPut(arc_cache, AllocationGroupsKey(request), pointer)
          /\ arc_shared' = [ arc_shared EXCEPT ![t] = pointer ]
    /\ arc_groups' = [ arc_groups EXCEPT ![t] = None ]
    /\ arc_pc' = [ arc_pc EXCEPT ![t] = "respond" ]
    /\ UNCHANGED << arc_request, arc_seen >>
    /\ UNCHANGED notArc

\* Mutant of ArcRead: the worker reverses the shared value before it reads.
ArcReadReverses(t) ==
    /\ arc_pc[t] = "respond"
    /\ LET shared == arc_heap[arc_shared[t]]
           reversed == Reverse(shared.groups)
       IN /\ Len(arc_seen[t]) < Len(shared.groups)
          /\ arc_heap' = [ arc_heap EXCEPT ![arc_shared[t]].groups = reversed ]
          /\ arc_seen' = [ arc_seen EXCEPT ![t] = Append(@, reversed[Len(@) + 1]) ]
    /\ UNCHANGED << arc_cache, arc_pc, arc_request, arc_groups, arc_shared >>
    /\ UNCHANGED notArc

\* get_allocation_groups, in the worker: allocations.allocations_by_backtrace
\* .get( index ) for the next index, through the shared pointer.
ArcRead(t) ==
    /\ arc_pc[t] = "respond"
    /\ LET shared == arc_heap[arc_shared[t]] IN
        /\ Len(arc_seen[t]) < Len(shared.groups)
        /\ arc_seen' = [ arc_seen EXCEPT ![t] = Append(@, shared.groups[Len(@) + 1]) ]
    /\ UNCHANGED << arc_heap, arc_cache, arc_pc, arc_request, arc_groups, arc_shared >>
    /\ UNCHANGED notArc

\* The worker has serialized every group: its pointer is dropped.
ArcEnd(t) ==
    /\ arc_pc[t] = "respond"
    /\ Len(arc_seen[t]) = Len(arc_heap[arc_shared[t]].groups)
    /\ arc_pc' = [ arc_pc EXCEPT ![t] = "idle" ]
    /\ arc_request' = [ arc_request EXCEPT ![t] = None ]
    /\ arc_shared' = [ arc_shared EXCEPT ![t] = 0 ]
    /\ arc_seen' = [ arc_seen EXCEPT ![t] = << >> ]
    /\ UNCHANGED << arc_heap, arc_cache, arc_groups >>
    /\ UNCHANGED notArc

ArcNext ==
    \E t \in Threads :
        \/ ArcLookup(t)
        \/ ArcNew(t)
        \/ ArcSort(t)
        \/ ArcPut(t)
        \/ ArcRead(t)
        \/ ArcEnd(t)

-----------------------------------------------------------------------------
(* prepare_raw_filter: the lifetime arm (filter.rs:190-215) *)

\* No function was called.
CallIdle ==
    /\ call_input = None
    /\ call_output = None

\* protocol::LifetimeFilter
LifetimeFilters ==
    { "All", "OnlyLeaked", "OnlyNotDeallocatedInCurrentRange",
      "OnlyDeallocatedInCurrentRange", "OnlyTemporary", "OnlyWholeGroupLeaked" }

\* cli_core::BasicFilter as prepare_raw_filter has filled it when it comes to
\* filter.lifetime: the allocation window and the leaked-allocations bound
\* come from the wire filter, the other fields are the defaults still.
BasicFilter(after_at_least, until_at_most, leaked_at_least) ==
    [ only_allocated_after_at_least |-> after_at_least,
      only_allocated_until_at_most |-> until_at_most,
      only_deallocated_after_at_least |-> None,
      only_deallocated_until_at_most |-> None,
      only_not_deallocated_after_at_least |-> None,
      only_not_deallocated_until_at_most |-> None,
      only_leaked |-> FALSE,
      only_temporary |-> FALSE,
      only_group_leaked_allocations_at_least |-> leaked_at_least ]

\* std::cmp::max, std::cmp::min
CmpMax(a, b) == IF b >= a THEN b ELSE a
CmpMin(a, b) == IF b < a THEN b ELSE a

\* Mutant of MatchLifetime: OnlyDeallocatedInCurrentRange copies the
\* allocation window, as OnlyNotDeallocatedInCurrentRange does.
MatchLifetimeCopiesWindow(output, lifetime, runtime) ==
    IF UnwrapOr(lifetime, "All") = "OnlyDeallocatedInCurrentRange"
    THEN [ output EXCEPT
             !.only_deallocated_after_at_least = output.only_allocated_after_at_least,
             !.only_deallocated_until_at_most = output.only_allocated_until_at_most ]
    ELSE output

\* match filter.lifetime.unwrap_or( protocol::LifetimeFilter::All ) { .. };
\* runtime is data.last_timestamp() - data.initial_timestamp().
MatchLifetime(output, lifetime, runtime) ==
    LET arm == UnwrapOr(lifetime, "All") IN
    CASE arm = "All" -> output
      [] arm = "OnlyLeaked" -> [ output EXCEPT !.only_leaked = TRUE ]
      [] arm = "OnlyNotDeallocatedInCurrentRange" ->
            [ output EXCEPT
                !.only_not_deallocated_after_at_least = output.only_allocated_after_at_least,
                !.only_not_deallocated_until_at_most = output.only_allocated_until_at_most ]
      [] arm = "OnlyDeallocatedInCurrentRange" ->
            LET min_1 == UnwrapOr(output.only_allocated_after_at_least, 0)
                max_1 == UnwrapOr(output.only_allocated_until_at_most, runtime)
                min_2 == UnwrapOr(output.only_deallocated_after_at_least, 0)
                max_2 == UnwrapOr(output.only_deallocated_until_at_most, runtime)
            IN [ output EXCEPT
                   !.only_deallocated_after_at_least = Some(CmpMax(min_1, min_2)),
                   !.only_deallocated_until_at_most = Some(CmpMin(max_1, max_2)) ]
      [] arm = "OnlyTemporary" -> [ output EXCEPT !.only_temporary = TRUE ]
      [] arm = "OnlyWholeGroupLeaked" ->
            [ output EXCEPT !.only_group_leaked_allocations_at_least = Some(Fraction(100)) ]

\* The bounds of a window: absent, or a time since the start of the capture.
WindowBounds == { None } \cup { Some(ts) : ts \in 0..MaxWindow }

\* prepare_raw_filter comes to the lifetime of a wire filter.
CallMatchLifetime ==
    /\ call_input = None
    /\ \E after_at_least \in WindowBounds, until_at_most \in WindowBounds,
          leaked_at_least \in { None, Some(Fraction(50)) },
          lifetime \in { None } \cup { Some(l) : l \in LifetimeFilters },
          runtime \in 0..MaxWindow :
        LET output == BasicFilter(after_at_least, until_at_most, leaked_at_least) IN
        /\ call_input' = Some([ output |-> output, lifetime |-> lifetime, runtime |-> runtime ])
        /\ call_output' = Some(MatchLifetime(output, lifetime, runtime))
    /\ UNCHANGED notCall

LifetimeNext == CallMatchLifetime

-----------------------------------------------------------------------------
(* get_allocation_group_data alone (lib.rs:729-809) *)

\* Timestamp::min(), Timestamp::max()
TimestampMin == 0
TimestampMax == U64Max

\* impl Default for Group
GroupDefault ==
    [ size_sum |-> 0, min_size |-> U64Max, max_size |-> 0,
      min_timestamp |-> TimestampMax, max_timestamp |-> TimestampMin,
      leaked_count |-> 0, allocated_count |-> 0 ]

\* The closure of fold_with, over the allocations of one piece.
RECURSIVE GroupFoldWith(_, _)
GroupFoldWith(group, piece) ==
    IF piece = << >> THEN group
    ELSE LET allocation == piece[1]
             size == allocation.size
             timestamp == allocation.timestamp
         IN GroupFoldWith(
                [ size_sum |-> group.size_sum + size,
                  min_size |-> CmpMin(group.min_size, size),
                  max_size |-> CmpMax(group.max_size, size),
                  min_timestamp |-> CmpMin(group.min_timestamp, timestamp),
                  max_timestamp |-> CmpMax(group.max_timestamp, timestamp),
                  leaked_count |-> group.leaked_count
                                     + (IF allocation.deallocation = None THEN 1 ELSE 0),
                  allocated_count |-> group.allocated_count + 1 ],
                Tail(piece))

\* Mutant of GroupReduce: the counts of the right operand are dropped.
GroupReduceDropsCounts(a, b) ==
    [ size_sum |-> a.size_sum + b.size_sum,
      min_size |-> CmpMin(a.min_size, b.min_size),
      max_size |-> CmpMax(a.max_size, b.max_size),
      min_timestamp |-> CmpMin(a.min_timestamp, b.min_timestamp),
      max_timestamp |-> CmpMax(a.max_timestamp, b.max_timestamp),
      leaked_count |-> a.leaked_count,
      allocated_count |-> a.allocated_count ]

\* The closure of reduce.
GroupReduce(a, b) ==
    [ size_sum |-> a.size_sum + b.size_sum,
      min_size |-> CmpMin(a.min_size, b.min_size),
      max_size |-> CmpMax(a.max_size, b.max_size),
      min_timestamp |-> CmpMin(a.min_timestamp, b.min_timestamp),
      max_timestamp |-> CmpMax(a.max_timestamp, b.max_timestamp),
      leaked_count |-> a.leaked_count + b.leaked_count,
      allocated_count |-> a.allocated_count + b.allocated_count ]

\* fold_with + reduce on the work-stealing pool: the input is split into
\* contiguous pieces in any way, each piece is folded from a clone of the
\* identity, and the partial groups are reduced pairwise; a side of a reduce
\* can be the identity itself.
RECURSIVE GroupFoldReduce(_)
GroupFoldReduce(input) ==
    LET folded == GroupFoldWith(GroupDefault, input) IN
    { folded, GroupReduce(GroupDefault, folded), GroupReduce(folded, GroupDefault) } \cup
    UNION { { GroupReduce(a, b) : a \in GroupFoldReduce(SubSeq(input, 1, k)),
                                  b \in GroupFoldReduce(SubSeq(input, k + 1, Len(input))) }
            : k \in 1..(Len(input) - 1) }

\* get_allocation_group_data: every value it can return for the input. initial
\* is data.initial_timestamp().
GetAllocationGroupData(input, initial) ==
    { [ leaked_count |-> group.leaked_count,
        allocated_count |-> group.allocated_count,
        size |-> group.size_sum,
        min_size |-> group.min_size,
        max_size |-> group.max_size,
        min_timestamp |-> group.min_timestamp,
        min_timestamp_relative |-> group.min_timestamp - initial,
        max_timestamp |-> group.max_timestamp,
        max_timestamp_relative |-> group.max_timestamp - initial,
        interval |-> group.max_timestamp - group.min_timestamp ]
      : group \in GroupFoldReduce(input) }

\* The allocations a group can hold: two sizes, two instants, freed or not.
GroupAllocations ==
    [ size : { 1, 3 }, timestamp : { 1, 2 }, deallocation : { None, Some(2) } ]

RECURSIVE SeqsUpTo(_, _)
SeqsUpTo(S, n) ==
    IF n = 0 THEN { << >> }
    ELSE LET shorter == SeqsUpTo(S, n - 1) IN
         shorter \cup { Append(s, x) : s \in shorter, x \in S }

\* get_allocation_group_data is called on the allocations of a group, in the
\* order the iterator gives them.
CallGetAllocationGroupData ==
    /\ call_input = None
    /\ \E input \in SeqsUpTo(GroupAllocations, MaxFold) \ { << >> } :
        /\ call_input' = Some(input)
        /\ \E group_data \in GetAllocationGroupData(input, 1) :
              call_output' = Some(group_data)
    /\ UNCHANGED notCall

GroupDataNext == CallGetAllocationGroupData

-----------------------------------------------------------------------------
(* get_allocations alone (lib.rs:614-711) *)

\* data.alloc_sorted_by_address( None, None ), data.alloc_sorted_by_size( None,
\* None ): data of the capture, as AllocSortedByTimestamp is.
AllocSortedByAddress == << 4, 1, 2, 3 >>
AllocSortedBySize == << 2, 4, 1, 3 >>

\* prefiltered_allocation_ids
PrefilteredAllocationIds(sort_by) ==
    CASE sort_by = "Timestamp" -> AllocSortedByTimestamp
      [] sort_by = "Address" -> AllocSortedByAddress
      [] sort_by = "Size" -> AllocSortedBySize

\* Mutant of AllocationsIter: Order::Dsc walks the array forwards too.
AllocationsIterNeverReversed(array, order, filter) ==
    SelectSeq(array, LAMBDA id : TryMatch(filter, id, Allocations[id]))

\* allocations_iter: array.iter(), or array.iter().rev(), then map and filter.
AllocationsIter(array, order, filter) ==
    SelectSeq(IF order = "Dsc" THEN Reverse(array) ELSE array,
              LAMBDA id : TryMatch(filter, id, Allocations[id]))

\* -1_i32 as u32, the count of a request that gives none.
CountUnlimited == 2147483647

\* Iterator::skip, Iterator::take
Skip(s, n) == SubSeq(s, n + 1, Len(s))
Take(s, n) == SubSeq(s, 1, IF n < Len(s) THEN n ELSE Len(s))

\* get_allocations: total_count and the ids of the streamed allocations.
GetAllocations(params, filter) ==
    LET remaining == UnwrapOr(params.count, CountUnlimited)
        skip == UnwrapOr(params.skip, 0)
        sort_by == UnwrapOr(params.sort_by, "Timestamp")
        order == UnwrapOr(params.order, "Asc")
        allocation_ids == PrefilteredAllocationIds(sort_by)
    IN [ total_count |->
             Cardinality({ i \in 1..Len(allocation_ids) :
                 TryMatch(filter, allocation_ids[i], Allocations[allocation_ids[i]]) }),
         allocations |->
             Take(Skip(AllocationsIter(allocation_ids, order, filter), skip), remaining) ]

\* protocol::RequestAllocations
RequestAllocations ==
    [ count : { None } \cup { Some(n) : n \in 0..MaxCount },
      skip : { None } \cup { Some(n) : n \in 0..MaxSkip },
      sort_by : { None, Some("Timestamp"), Some("Address"), Some("Size") },
      order : { None, Some("Asc"), Some("Dsc") } ]

\* The filters handler_allocations prepares for the requests of the model.
AllocationsFilters ==
    { PrepareFilter(AllocFilter(size_min, lifetime, None), custom_filter) :
        size_min \in { None, Some(4) },
        lifetime \in { None, Some("OnlyLeaked") },
        custom_filter \in { None, Some("only_first_backtraces") } }

\* One allocations request.
CallGetAllocations ==
    /\ call_input = None
    /\ \E params \in RequestAllocations, filter \in AllocationsFilters :
        /\ call_input' = Some([ params |-> params, filter |-> filter ])
        /\ call_output' = Some(GetAllocations(params, filter))
    /\ UNCHANGED notCall

AllocationsNext == CallGetAllocations

-----------------------------------------------------------------------------
(* main: loading the captures (lib.rs:1731-1757) *)

\* State::new(), before main looks at its inputs.
LoadInit ==
    /\ ld_pc = "idle"
    /\ ld_inputs = << >>
    /\ ld_parallel = FALSE
    /\ ld_finished = << >>
    /\ ld_joined = {}
    /\ ld_data = << >>
    /\ ld_data_ids = << >>

\* State::add_data, on the map and the list of ids: the capture of input file
\* `file` has the id `id`.
add_data(map, ids, id, file) ==
    IF id \in DOMAIN map
    THEN [ data |-> map, data_ids |-> ids ]
    ELSE [ data |-> [ k \in DOMAIN map \cup {id} |-> IF k = id THEN file ELSE map[k] ],
           data_ids |-> Append(ids, id) ]

\* main is called with its input files; with load_in_parallel a loader thread
\* is spawned for each before any is joined.
MainStart ==
    /\ ld_pc = "idle"
    /\ \E inputs \in SeqsUpTo(CaptureIds, MaxInputs) \ { << >> }, parallel \in BOOLEAN :
        /\ ld_inputs' = inputs
        /\ ld_parallel' = parallel
    /\ ld_pc' = "loading"
    /\ UNCHANGED << ld_finished, ld_joined, ld_data, ld_data_ids >>
    /\ UNCHANGED notLoad

\* !load_in_parallel: the next file is loaded and registered.
LoadAndAdd ==
    /\ ld_pc = "loading"
    /\ ~ld_parallel
    /\ LET file == Cardinality(ld_joined) + 1
           st == add_data(ld_data, ld_data_ids, ld_inputs[file], file)
       IN /\ file <= Len(ld_inputs)
          /\ ld_finished' = Append(ld_finished, file)
          /\ ld_joined' = ld_joined \cup {file}
          /\ ld_data' = st.data
          /\ ld_data_ids' = st.data_ids
    /\ UNCHANGED << ld_pc, ld_inputs, ld_parallel >>
    /\ UNCHANGED notLoad

\* A loader thread returns its capture, at any time after it was spawned.
LoaderFinish ==
    /\ ld_pc = "loading"
    /\ ld_parallel
    /\ \E file \in 1..Len(ld_inputs) :
        /\ file \notin Range(ld_finished)
        /\ ld_finished' = Append(ld_finished, file)
    /\ UNCHANGED << ld_pc, ld_inputs, ld_parallel, ld_joined, ld_data, ld_data_ids >>
    /\ UNCHANGED notLoad

\* Mutant of JoinAndAdd: the capture of any finished thread is registered.
JoinAnyFinished ==
    /\ ld_pc = "loading"
    /\ ld_parallel
    /\ \E file \in Range(ld_finished) \ ld_joined :
        LET st == add_data(ld_data, ld_data_ids, ld_inputs[file], file) IN
        /\ ld_joined' = ld_joined \cup {file}
        /\ ld_data' = st.data
        /\ ld_data_ids' = st.data_ids
    /\ UNCHANGED << ld_pc, ld_inputs, ld_parallel, ld_finished >>
    /\ UNCHANGED notLoad

\* for handle in handles { let data = handle.join().unwrap()?; state.add_data(
\* data ); }: the join of the next handle returns once its thread has finished.
JoinAndAdd ==
    /\ ld_pc = "loading"
    /\ ld_parallel
    /\ LET file == Cardinality(ld_joined) + 1
           st == add_data(ld_data, ld_data_ids, ld_inputs[file], file)
       IN /\ file <= Len(ld_inputs)
          /\ file \in Range(ld_finished)
          /\ ld_joined' = ld_joined \cup {file}
          /\ ld_data' = st.data
          /\ ld_data_ids' = st.data_ids
    /\ UNCHANGED << ld_pc, ld_inputs, ld_parallel, ld_finished >>
    /\ UNCHANGED notLoad

\* Every input is registered: the state is shared and the server starts.
StartServer ==
    /\ ld_pc = "loading"
    /\ Cardinality(ld_joined) = Len(ld_inputs)
    /\ ld_pc' = "serving"
    /\ UNCHANGED << ld_inputs, ld_parallel, ld_finished, ld_joined, ld_data, ld_data_ids >>
    /\ UNCHANGED notLoad

LoadNext ==
    \/ MainStart
    \/ LoadAndAdd
    \/ LoaderFinish
    \/ JoinAndAdd
    \/ StartServer

-----------------------------------------------------------------------------
(* handler_allocation_groups: the requests it rejects (lib.rs:934-940) *)

RejInit ==
    /\ rej_response = None
    /\ rej_count = 0

\* The server after main registered the capture the requests are about.
ResServing ==
    /\ data = { DataId }
    /\ data_ids = << DataId >>
    /\ res_segment = None
    /\ res_response = None
    /\ res_spawned = 0
    /\ res_calls = 0
    /\ res_newest = Some(DataId)
    /\ res_backtrace = None

\* query::< T >( &req ) fails: serde_urlencoded cannot read T from the query string.
QueryError(type) == [ kind |-> "query", type |-> type ]

\* A wire filter with at most the two regexes given.
RegexFilter(function_regex, negative_source_regex) ==
    [ f \in RegexFields \cup { "size_min", "lifetime", "group_leaked_allocations_min" } |->
        IF f = "function_regex" THEN function_regex
        ELSE IF f = "negative_source_regex" THEN negative_source_regex
        ELSE None ]

\* A request as the handler reads it: the id segment of the path, the part of
\* the query string each query::< T >() call reads, and the type, if any, the
\* query string is malformed for.
HttpRequest(segment, filter, custom_filter, malformed) ==
    [ segment |-> segment, filter |-> filter, custom_filter |-> custom_filter,
      malformed |-> malformed ]

\* The requests of the model: well-formed ones, and for each `?` of the
\* handler requests that make it return, alone or together with later ones.
HttpRequests ==
    { HttpRequest(segment, RegexFilter(None, None), None, "") : segment \in Segments }
      \cup
    { HttpRequest("last", RegexFilter(function_regex, negative_source_regex), custom_filter, "") :
        function_regex \in { None, Some("main"), Some("(") },
        negative_source_regex \in { None, Some("(") },
        custom_filter \in { None, Some("only_first_backtraces"), Some("syntax error") } }
      \cup
    { HttpRequest(segment, RegexFilter(function_regex, None), None, malformed) :
        segment \in { "last", "zz" },
        function_regex \in { None, Some("(") },
        malformed \in { "AllocFilter", "CustomFilter", "BacktraceFormat",
                        "RequestAllocationGroups" } }

\* handler_allocation_groups up to the key: get_data, query, query,
\* prepare_filter, query, query, each with `?`. With an error comes the line
\* of the statement that returned it.
ParseAllocationGroupsRequest(http) ==
    LET data_id == get_data_id(http.segment)
        prepared == TryPrepareFilter(http.filter, http.custom_filter).result
    IN IF ~data_id.ok THEN [ result |-> data_id, line |-> 935 ]
       ELSE IF http.malformed = "AllocFilter"
       THEN [ result |-> Err(QueryError(http.malformed)), line |-> 936 ]
       ELSE IF http.malformed = "CustomFilter"
       THEN [ result |-> Err(QueryError(http.malformed)), line |-> 937 ]
       ELSE IF ~prepared.ok
       THEN [ result |-> Err(ErrorBadRequest(prepared.error)), line |-> 938 ]
       ELSE IF http.malformed = "BacktraceFormat"
       THEN [ result |-> Err(QueryError(http.malformed)), line |-> 939 ]
       ELSE IF http.malformed = "RequestAllocationGroups"
       THEN [ result |-> Err(QueryError(http.malformed)), line |-> 940 ]
       ELSE [ result |-> Ok(data_id.value), line |-> 950 ]

\* Mutant of RejectRequest: the cache is looked up, with the key of the
\* parameters as sent, before the request is validated.
RejectAfterLookup(t) ==
    /\ gpc[t] = "idle"
    /\ rej_count < MaxRejected
    /\ \E http \in HttpRequests :
        LET parsed == ParseAllocationGroupsRequest(http)
            sent == AllocFilter(http.filter.size_min, http.filter.lifetime,
                                http.filter.group_leaked_allocations_min)
            key == AllocationGroupsKey(Request(sent, http.custom_filter, None, None))
        IN /\ ~parsed.result.ok
           /\ cache' = LruGet(cache, key).lru
           /\ rej_response' = Some([ error |-> parsed.result.error, line |-> parsed.line ])
    /\ rej_count' = rej_count + 1
    /\ UNCHANGED << gpc, greq, cache_op, recent >>
    /\ UNCHANGED << filesVars, newVars, sortVars, fltVars, btVars, fragVars, resVars, chanVars,
                    regVars, lockVars, arcVars, callVars, loadVars, raceVars >>

\* A request one of the `?` above returns from: the error is the response.
\* allocation_group_cache.lock() and async_data_handler come later in the
\* handler and are not reached.
RejectRequest(t) ==
    /\ gpc[t] = "idle"
    /\ rej_count < MaxRejected
    /\ \E http \in HttpRequests :
        LET parsed == ParseAllocationGroupsRequest(http) IN
        /\ ~parsed.result.ok
        /\ rej_response' = Some([ error |-> parsed.result.error, line |-> parsed.line ])
    /\ rej_count' = rej_count + 1
    /\ UNCHANGED notRej

\* One client sends requests the handler accepts, every client requests it
\* rejects.
RejectNext ==
    \/ LookupHit(1)
    \/ LookupMiss(1)
    \/ BuildAndPut(1)
    \/ \E t \in Threads : RejectRequest(t)

-----------------------------------------------------------------------------
(* handler_backtraces: the counting pass and the streaming pass (lib.rs:1261-1296) *)

\* data.all_backtraces() of the captures of the model: backtraces of up to
\* two frames.
AllBacktraces == SeqsUpTo({ backtrace \in Backtraces : Len(backtrace) <= 2 }, MaxStored)

\* data.all_backtraces().flat_map( |(_, backtrace)| if !match_backtrace( .. ) {
\* None } else { Some( .. ) } ): the positions of the backtraces it yields,
\* from the position `next` on, and the caches it leaves.
RECURSIVE FlatMapMatch(_, _, _, _, _, _)
FlatMapMatch(pcache, ncache, filter, all, next, yielded) ==
    IF next > Len(all)
    THEN [ yielded |-> yielded, positive_cache |-> pcache, negative_cache |-> ncache ]
    ELSE LET got == MatchBacktrace(pcache, ncache, filter, all[next]) IN
         FlatMapMatch(got.positive_cache, got.negative_cache, filter, all, next + 1,
                      IF got.result THEN Append(yielded, next) ELSE yielded)

\* Mutant of CloneCaches: each cache of the streaming pass is the clone of the
\* other cache.
CloneCachesSwapped(counting) ==
    [ positive_cache |-> counting.negative_cache, negative_cache |-> counting.positive_cache ]

\* let mut positive_cache = positive_cache.clone();
\* let mut negative_cache = negative_cache.clone();
CloneCaches(counting) ==
    [ positive_cache |-> counting.positive_cache, negative_cache |-> counting.negative_cache ]

\* The worker of handler_backtraces: total_count from the first pass over
\* fresh caches, the backtraces the serializer is given from the second pass
\* over the clones. `counted` is what the first pass accepted.
HandlerBacktracesWorker(filter, all) ==
    LET counting == FlatMapMatch(<< >>, << >>, filter, all, 1, << >>)
        clones == CloneCaches(counting)
        streaming == FlatMapMatch(clones.positive_cache, clones.negative_cache, filter, all,
                                  1, << >>)
    IN [ total_count |-> Len(counting.yielded),
         backtraces |-> streaming.yielded,
         counted |-> counting.yielded,
         positive_cache |-> counting.positive_cache,
         negative_cache |-> counting.negative_cache ]

\* One /backtraces request whose response is written to its end.
CallHandlerBacktraces ==
    /\ call_input = None
    /\ \E filter \in BacktraceFilters, all \in AllBacktraces :
        /\ call_input' = Some([ filter |-> filter, all |-> all ])
        /\ call_output' = Some(HandlerBacktracesWorker(filter, all))
    /\ UNCHANGED notCall

BacktracesNext == CallHandlerBacktraces

-----------------------------------------------------------------------------
(* handler_allocation_groups: requests racing on a full cache (lib.rs:950-1043) *)

\* No request was made.
RaceIdle ==
    /\ rc_heap = << >>
    /\ rc_cache = << >>
    /\ rc_pc = [ t \in Threads |-> "idle" ]
    /\ rc_request = [ t \in Threads |-> None ]
    /\ rc_shared = [ t \in Threads |-> 0 ]

\* The request the clients race on.
RacedRequest == Request(AllocFilter(None, Some("All"), None), None, None, None)

\* The requests that filled the cache, the least recently used one last:
\* the other four keys of the model.
EarlierRequests ==
    << Request(AllocFilter(None, None, None), None, None, None),
       Request(AllocFilter(None, Some("OnlyWholeGroupLeaked"), None), None, Some("Size"), Some("Dsc")),
       Request(AllocFilter(None, None, Some(Percent(100))), None, Some("Size"), Some("Dsc")),
       Request(AllocFilter(None, None, None), Some("only_first_backtraces"), None, None) >>

\* The server after the four requests above were served one after the other:
\* the cache is full and no request is running.
RaceInit ==
    /\ rc_heap = [ p \in 1..Len(EarlierRequests) |->
                     [ request |-> EarlierRequests[p],
                       groups |-> CHOOSE groups \in BuiltGroupsOf[EarlierRequests[p]] : TRUE ] ]
    /\ rc_cache = [ p \in 1..Len(EarlierRequests) |->
                      [ key |-> AllocationGroupsKey(EarlierRequests[p]), value |-> p ] ]
    /\ rc_pc = [ t \in Threads |-> "idle" ]
    /\ rc_request = [ t \in Threads |-> None ]
    /\ rc_shared = [ t \in Threads |-> 0 ]

\* What each client asks for: the first the groups of one key again and
\* again, the second any of the requests.
RaceRequests ==
    [ t \in Threads |-> IF t = 1 THEN { RacedRequest } ELSE Requests ]

\* allocation_group_cache.lock().get( &key ).cloned(): a clone of the cached
\* Arc on a hit; on a miss the lock is released and the handler builds.
RaceLookup(t) ==
    /\ rc_pc[t] = "idle"
    /\ \E request \in RaceRequests[t] :
        LET got == LruGet(rc_cache, AllocationGroupsKey(request)) IN
        /\ got.value = None => Len(rc_heap) < Len(EarlierRequests) + MaxBuilt
        /\ rc_cache' = got.lru
        /\ rc_request' = [ rc_request EXCEPT ![t] = Some(request) ]
        /\ rc_shared' = [ rc_shared EXCEPT ![t] =
              IF got.value = None THEN 0 ELSE Unwrap(got.value) ]
        /\ rc_pc' = [ rc_pc EXCEPT ![t] = IF got.value = None THEN "build" ELSE "respond" ]
    /\ UNCHANGED rc_heap
    /\ UNCHANGED notRace

\* Mutant of RaceBuildAndPut: when the cache holds the key, the groups are
\* written into the cached value, which the handler goes on with.
RacePutIntoPresent(t) ==
    /\ rc_pc[t] = "build"
    /\ LET request == Unwrap(rc_request[t])
           key == AllocationGroupsKey(request)
           i == Position(rc_cache, key)
           pointer == IF i = 0 THEN Len(rc_heap) + 1 ELSE rc_cache[i].value
       IN \E groups \in BuiltGroupsOf[request] :
           /\ rc_heap' = IF i = 0
                         THEN Append(rc_heap, [ request |-> request, groups |-> groups ])
                         ELSE [ rc_heap EXCEPT ![pointer].groups = groups ]
           /\ rc_cache' = LruPut(rc_cache, key, pointer)
           /\ rc_shared' = [ rc_shared EXCEPT ![t] = pointer ]
    /\ rc_pc' = [ rc_pc EXCEPT ![t] = "respond" ]
    /\ UNCHANGED rc_request
    /\ UNCHANGED notRace

\* AllocationGroups::new and sort_by on the handler's own value, then
\* allocation_groups = Arc::new( groups ) and allocation_group_cache.lock()
\* .put( key, allocation_groups.clone() ). The value the cache held for the
\* key, or for the least recently used key, loses the cache's pointer only.
RaceBuildAndPut(t) ==
    /\ rc_pc[t] = "build"
    /\ LET request == Unwrap(rc_request[t])
           key == AllocationGroupsKey(request)
           pointer == Len(rc_heap) + 1
       IN \E groups \in BuiltGroupsOf[request] :
           /\ rc_heap' = Append(rc_heap, [ request |-> request, groups |-> groups ])
           /\ rc_cache' = LruPut(rc_cache, key, pointer)
           /\ rc_shared' = [ rc_shared EXCEPT ![t] = pointer ]
    /\ rc_pc' = [ rc_pc EXCEPT ![t] = "respond" ]
    /\ UNCHANGED rc_request
    /\ UNCHANGED notRace

\* get_allocation_groups in the worker, on the Arc moved into it; the
\* worker's pointer is dropped when the response is written.
RaceRespond(t) ==
    /\ rc_pc[t] = "respond"
    /\ rc_pc' = [ rc_pc EXCEPT ![t] = "idle" ]
    /\ rc_request' = [ rc_request EXCEPT ![t] = None ]
    /\ rc_shared' = [ rc_shared EXCEPT ![t] = 0 ]
    /\ UNCHANGED << rc_heap, rc_cache >>
    /\ UNCHANGED notRace

RaceNext ==
    \E t \in Threads :
        \/ RaceLookup(t)
        \/ RaceBuildAndPut(t)
        \/ RaceRespond(t)

-----------------------------------------------------------------------------
(* Specifications *)

NewIdle ==
    /\ new_input = << >>
    /\ new_output = None
    /\ new_again = None

Init ==
    /\ FilesInit
    /\ GroupsInit
    /\ NewIdle
    /\ SortIdle
    /\ FltIdle
    /\ BtIdle
    /\ FragInit
    /\ ResInit
    /\ ChanInit
    /\ RegIdle
    /\ LockInit
    /\ ArcInit
    /\ CallIdle
    /\ LoadInit
    /\ RejInit
    /\ RaceIdle

InitNew ==
    /\ FilesInit
    /\ GroupsInit
    /\ NewInit
    /\ SortIdle
    /\ FltIdle
    /\ BtIdle
    /\ FragInit
    /\ ResInit
    /\ ChanInit
    /\ RegIdle
    /\ LockInit
    /\ ArcInit
    /\ CallIdle
    /\ LoadInit
    /\ RejInit
    /\ RaceIdle

InitSort ==
    /\ FilesInit
    /\ GroupsInit
    /\ NewIdle
    /\ SortInit
    /\ FltIdle
    /\ BtIdle
    /\ FragInit
    /\ ResInit
    /\ ChanInit
    /\ RegIdle
    /\ LockInit
    /\ ArcInit
    /\ CallIdle
    /\ LoadInit
    /\ RejInit
    /\ RaceIdle

InitFlt ==
    /\ FilesInit
    /\ GroupsInit
    /\ NewIdle
    /\ SortIdle
    /\ FltInit
    /\ BtIdle
    /\ FragInit
    /\ ResInit
    /\ ChanInit
    /\ RegIdle
    /\ LockInit
    /\ ArcInit
    /\ CallIdle
    /\ LoadInit
    /\ RejInit
    /\ RaceIdle

InitBt ==
    /\ FilesInit
    /\ GroupsInit
    /\ NewIdle
    /\ SortIdle
    /\ FltIdle
    /\ BtInit
    /\ FragInit
    /\ ResInit
    /\ ChanInit
    /\ RegIdle
    /\ LockInit
    /\ ArcInit
    /\ CallIdle
    /\ LoadInit
    /\ RejInit
    /\ RaceIdle

InitFrag ==
    /\ FilesInit
    /\ GroupsInit
    /\ NewIdle
    /\ SortIdle
    /\ FltIdle
    /\ BtIdle
    /\ FragStart
    /\ ResInit
    /\ ChanInit
    /\ RegIdle
    /\ LockInit
    /\ ArcInit
    /\ CallIdle
    /\ LoadInit
    /\ RejInit
    /\ RaceIdle

InitReg ==
    /\ FilesInit
    /\ GroupsInit
    /\ NewIdle
    /\ SortIdle
    /\ FltIdle
    /\ BtIdle
    /\ FragInit
    /\ ResInit
    /\ ChanInit
    /\ RegInit
    /\ LockInit
    /\ ArcInit
    /\ CallIdle
    /\ LoadInit
    /\ RejInit
    /\ RaceIdle

\* The server with the capture registered, before the first request.
InitReject ==
    /\ FilesInit
    /\ GroupsInit
    /\ NewIdle
    /\ SortIdle
    /\ FltIdle
    /\ BtIdle
    /\ FragInit
    /\ ResServing
    /\ ChanInit
    /\ RegIdle
    /\ LockInit
    /\ ArcInit
    /\ CallIdle
    /\ LoadInit
    /\ RejInit
    /\ RaceIdle

\* The server with a full group cache, before the racing requests.
InitRace ==
    /\ FilesInit
    /\ GroupsInit
    /\ NewIdle
    /\ SortIdle
    /\ FltIdle
    /\ BtIdle
    /\ FragInit
    /\ ResInit
    /\ ChanInit
    /\ RegIdle
    /\ LockInit
    /\ ArcInit
    /\ CallIdle
    /\ LoadInit
    /\ RejInit
    /\ RaceInit

\* The generated-file cache under its two registering handlers.
SpecFiles ==
    /\ Init
    /\ [][FilesNext]_vars

\* Scenario S5 of the generated-file cache.
SpecS5 ==
    /\ Init
    /\ [][S5Next]_vars

\* The allocation-group cache under concurrent allocation_groups requests.
SpecGroups ==
    /\ Init
    /\ [][GroupsNext]_vars

\* AllocationGroups::new on every input within the bounds.
SpecNew ==
    /\ InitNew
    /\ [][NewNext]_vars

\* Build and sort for every part of the index and every sort key.
SpecSort ==
    /\ InitSort
    /\ [][SortNext]_vars

\* Filter preparation and matching for every wire filter of the model.
SpecFlt ==
    /\ InitFlt
    /\ [][FltNext]_vars

\* The match_backtrace calls of one request, for every filter of the model.
SpecBt ==
    /\ InitBt
    /\ [][BtNext]_vars

\* Capture resolution for every set of loaded captures of the model.
SpecRes ==
    /\ Init
    /\ [][ResNext]_vars

\* One worker and its byte channel, for every handler that has one.
SpecChan ==
    /\ Init
    /\ [][ChanNext]_vars

\* The same with the worker thread scheduled: a step of the worker that
\* stays possible is taken.
SpecChanFair ==
    /\ SpecChan
    /\ WF_vars(WorkerCompute)
    /\ WF_vars(WorkerWrite)

\* generate_regions on every matched set within the bounds.
SpecReg ==
    /\ InitReg
    /\ [][RegNext]_vars

\* Concurrent allocation_groups requests over shared AllocationGroups objects.
SpecArc ==
    /\ Init
    /\ [][ArcNext]_vars

\* Concurrent requests of the handlers that lock a mutex of State.
SpecLock ==
    /\ Init
    /\ [][LockNext]_vars

\* The lifetime arm of prepare_raw_filter on every filter within the bounds.
SpecLifetime ==
    /\ Init
    /\ [][LifetimeNext]_vars

\* get_allocation_group_data on every group within the bounds.
SpecGroupData ==
    /\ Init
    /\ [][GroupDataNext]_vars

\* get_allocations on every request and filter within the bounds.
SpecAllocations ==
    /\ Init
    /\ [][AllocationsNext]_vars

\* main loading its inputs, one after the other or in parallel.
SpecLoad ==
    /\ Init
    /\ [][LoadNext]_vars

\* allocation_groups requests, accepted and rejected, on one capture.
SpecReject ==
    /\ InitReject
    /\ [][RejectNext]_vars

\* The worker of handler_backtraces on every filter and capture within the bounds.
SpecBacktraces ==
    /\ Init
    /\ [][BacktracesNext]_vars

\* Concurrent allocation_groups requests on a full group cache.
SpecRace ==
    /\ InitRace
    /\ [][RaceNext]_vars

\* get_fragmentation_timeline over every operation stream of the model.
SpecFrag ==
    /\ InitFrag
    /\ [][FragNext]_vars

-----------------------------------------------------------------------------
(* Claims about the generated-file cache *)

\* C1 as stated: after every add_file, total_size <= 32 MiB, whatever the sizes
\* of the entries.
C1_HighWaterAfterEveryAdd ==
    last_op.op = "add" => total_size <= HighWater

\* C1, amended: total_size is < 32 MiB when purge_old_if_too_big returns, and
\* after every add_file it is < 32 MiB plus the byte length of the entries
\* handed to add_file since that purge.
C1_HighWaterBeforeAdd ==
    /\ last_op.op = "purge" => total_size < HighWater
    /\ last_op.op = "add" => total_size < HighWater + since_purge

\* An add_file has left more than 32 MiB in the cache.
C1_Witness ==
    /\ last_op.op = "add"
    /\ ~ last_op.present
    /\ total_size > HighWater

\* C2: whenever purge_old_if_too_big evicts at least one entry, total_size is
\* <= 16 MiB when it returns.
C2_LowWaterAfterEviction ==
    (last_op.op = "purge" /\ last_op.evicted # {}) => total_size <= LowWater

\* A purge has evicted an entry larger than 16 MiB and kept another entry.
C2_Witness ==
    /\ last_op.op = "purge"
    /\ \E e \in last_op.evicted : e.len > LowWater
    /\ by_hash # << >>

\* C3: after any purge, every evicted entry has a creation instant <= the
\* creation instant of every entry that remains.
C3_OldestFirst ==
    last_op.op = "purge" =>
        \A e \in last_op.evicted : \A r \in Values(by_hash) : e.timestamp <= r.timestamp

\* A purge has evicted one entry and kept a younger one.
C3_Witness ==
    /\ last_op.op = "purge"
    /\ \E e \in last_op.evicted : \E r \in Values(by_hash) : e.timestamp < r.timestamp

\* C4: add_file with a hash that is present changes neither by_hash nor
\* total_size; with an absent hash it inserts the entry under its hash and adds
\* exactly the entry's byte length to total_size.
C4_AddFileEffect ==
    [][ (last_op'.op = "add" /\ run_files' = run_files + 1) =>
            LET entry == last_op'.entry IN
            IF \E h \in DOMAIN by_hash : h = entry.hash
            THEN /\ by_hash' = by_hash
                 /\ total_size' = total_size
            ELSE /\ DOMAIN by_hash' = DOMAIN by_hash \cup {entry.hash}
                 /\ by_hash'[entry.hash] = entry
                 /\ \A h \in DOMAIN by_hash : by_hash'[h] = by_hash[h]
                 /\ total_size' = total_size + entry.len ]_vars

\* add_file was handed an entry whose hash was present with another creation
\* instant, and the stored entry is still the old one.
C4_Witness ==
    /\ last_op.op = "add"
    /\ last_op.present
    /\ by_hash[last_op.entry.hash].timestamp # last_op.entry.timestamp

\* C5 as stated: total_size <= 32 MiB after each insert, and once eviction has
\* started the cache holds at most 16 entries, the most recently inserted.
C5_AtMostSixteenEntries ==
    last_op.op = "add" =>
        /\ total_size <= HighWater
        /\ max_evicted >= 0 =>
            /\ Cardinality(DOMAIN by_hash) <= 16
            /\ \A r \in Values(by_hash) : max_evicted <= r.timestamp

\* C5, amended: total_size <= 32 MiB after each insert; a purge that evicts
\* leaves exactly 16 entries, and once eviction has started the cache holds
\* between 17 and 32 entries after each insert, none of them created before an
\* evicted entry.
C5_SixteenToThirtyTwoEntries ==
    /\ last_op.op = "add" =>
        /\ total_size <= HighWater
        /\ max_evicted >= 0 =>
            /\ Cardinality(DOMAIN by_hash) \in 17..32
            /\ \A r \in Values(by_hash) : max_evicted <= r.timestamp
    /\ (last_op.op = "purge" /\ last_op.evicted # {}) =>
            Cardinality(DOMAIN by_hash) = 16

\* Forty entries have been inserted and 24 of them are in the cache.
C5_Witness ==
    /\ last_op.op = "add"
    /\ clock + ties = 40
    /\ max_evicted >= 0
    /\ Cardinality(DOMAIN by_hash) = 24

-----------------------------------------------------------------------------
(* Claims about the allocation-group cache *)

\* C6: the group cache never holds more than 4 entries nor one key twice, and
\* a put that finds 4 other keys cached drops exactly the key used least
\* recently, a use being a hit of get or a put; any other put drops nothing.
C6_LruCapacityFour ==
    /\ Len(cache) <= 4
    /\ Cardinality(CachedKeys(cache)) = Len(cache)
    /\ cache_op.op = "put" => cache_op.evicted = cache_op.victim

\* A put found the cache full of other keys, and one key was dropped.
C6_Witness ==
    /\ cache_op.op = "put"
    /\ cache_op.evicted # {}
    /\ Len(cache) = 4
    /\ Len(recent) = 5

\* The groups are in the order the key asks for: non-decreasing by the sort key
\* for Asc, non-increasing for Dsc.
InKeyOrder(groups, key) ==
    \A i, j \in 1..Len(groups) :
        i < j => IF key.order = "Dsc"
                 THEN SortKeyOf(key.sort_by, groups[i]) >= SortKeyOf(key.sort_by, groups[j])
                 ELSE SortKeyOf(key.sort_by, groups[i]) <= SortKeyOf(key.sort_by, groups[j])

\* C7: a lookup that directly follows a request that came to its groups under
\* the same key is a hit: it returns the very groups that request used, and its
\* thread does not go on to build. A thread that puts had missed and was
\* building for that key, and leaves the groups it built, in the order the key
\* asks for, at the key's entry.
C7_HitAfterSameKey ==
    [][ /\ ( /\ cache_op'.op = "get"
             /\ Completes(cache_op)
             /\ cache_op'.key = cache_op.key )
           => ( /\ cache_op'.value = cache_op.value
                /\ gpc' = gpc
                /\ greq' = greq )
        /\ cache_op'.op = "put"
           => \E t \in Threads :
                /\ gpc[t] = "build" /\ gpc'[t] = "idle"
                /\ cache_op'.request = Unwrap(greq[t])
                /\ InKeyOrder(Unwrap(cache_op'.value), cache_op'.key)
                /\ \E i \in 1..Len(cache') :
                     /\ cache'[i].key = cache_op'.key
                     /\ Some(cache'[i].value) = cache_op'.value
      ]_vars

\* A hit that directly follows a request of the same key, the key being one
\* whose groups can be built in two ways.
C7_Witness ==
    /\ cache_op.op = "get"
    /\ cache_op.after_same
    /\ cache_op.value # None
    /\ Cardinality(BuiltGroupsOf[cache_op.request]) > 1
    /\ gpc = [ t \in Threads |-> "idle" ]

\* The groups as a response shows them: the backtraces in order, and the
\* allocations of each.
GroupsShown(groups) ==
    [ i \in 1..Len(groups) |->
        [ backtrace |-> groups[i].backtrace, ids |-> Range(groups[i].ids) ] ]

\* Two requests with the same (filter, custom filter, sort_by, order), an
\* absent sort_by being MinTimestamp and an absent order Asc.
SameParameters(r1, r2) ==
    /\ r1.filter = r2.filter
    /\ r1.custom_filter = r2.custom_filter
    /\ UnwrapOr(r1.sort_by, "MinTimestamp") = UnwrapOr(r2.sort_by, "MinTimestamp")
    /\ UnwrapOr(r1.order, "Asc") = UnwrapOr(r2.order, "Asc")

\* C8: whatever groups a request comes to, from the cache or built (the first
\* time or after its entry was dropped), they are the groups every build for
\* any request of the same (filter, custom filter, sort_by, order) gives: the
\* same backtraces in the same order, the same allocations in each.
C8_CachePurity ==
    Completes(cache_op) =>
        \A request \in Requests :
            SameParameters(request, cache_op.request)
            => \A groups \in BuiltGroupsOf[request] :
                 GroupsShown(groups) = GroupsShown(Unwrap(cache_op.value))

\* The groups of a key were built again after the cache had dropped its entry,
\* the key being one whose groups can be built in two ways.
C8_Witness ==
    /\ cache_op.op = "put"
    /\ cache_op.rebuilt
    /\ Cardinality(BuiltGroupsOf[cache_op.request]) > 1

\* C9 as stated: a lookup hits whenever the cache holds an entry whose wire
\* filter lowers to the same filter as the request's, the rest of the key being
\* equal.
C9_LoweredFiltersShareEntry ==
    [][ ( /\ cache_op'.op = "get"
          /\ \E i \in 1..Len(cache) : SameLowered(cache[i].key, cache_op'.key) )
        => cache_op'.value # None ]_vars

-----------------------------------------------------------------------------
(* Claims about AllocationGroups::new *)

\* C10: whatever the input and however it is split and merged, every id of the
\* input is at exactly one place of exactly one group, the group of its
\* backtrace; the groups hold no other id, none is empty, no two have the same
\* backtrace, and their sizes add up to the length of the input.
C10_GroupTotality ==
    new_output # None =>
        LET groups == Unwrap(new_output)
            places == { << g, p >> \in (1..Len(groups)) \X (1..MaxAllocs + 1) :
                          p <= Len(groups[g].ids) }
        IN /\ \A i \in 1..Len(new_input) :
                \E pl \in places :
                    /\ groups[pl[1]].ids[pl[2]] = new_input[i][1]
                    /\ groups[pl[1]].backtrace = new_input[i][2]
                    /\ \A other \in places :
                         groups[other[1]].ids[other[2]] = new_input[i][1] => other = pl
           /\ \A pl \in places :
                \E i \in 1..Len(new_input) : new_input[i][1] = groups[pl[1]].ids[pl[2]]
           /\ \A g \in 1..Len(groups) : Len(groups[g].ids) > 0 /\ Len(groups[g].ids) <= MaxAllocs
           /\ \A g, h \in 1..Len(groups) : g # h => groups[g].backtrace # groups[h].backtrace
           /\ Sum([ g \in 1..Len(groups) |-> Len(groups[g].ids) ], 1..Len(groups)) = Len(new_input)

\* The merge put a later piece of the input first: a group of two ids of which
\* the first comes later in the input, beside a second group.
C10_Witness ==
    /\ new_output # None
    /\ Len(new_input) = MaxAllocs
    /\ LET groups == Unwrap(new_output) IN
        /\ Len(groups) = 2
        /\ \E g \in 1..Len(groups) :
            /\ Len(groups[g].ids) >= 2
            /\ \E i, j \in 1..Len(new_input) :
                /\ i < j
                /\ new_input[j][1] = groups[g].ids[1]
                /\ new_input[i][1] = groups[g].ids[2]

\* The ids are in ascending AllocationId order.
Ascending(ids) == \A i, j \in 1..Len(ids) : i < j => ids[i] < ids[j]

\* C11 as stated: after AllocationGroups::new the id list of every group is in
\* ascending AllocationId order, whatever the split and the merges; taken here
\* for the inputs that are themselves in ascending id order.
C11_GroupIdsAscending ==
    (new_output # None /\ Ascending([ i \in 1..Len(new_input) |-> new_input[i][1] ]))
        => \A g \in 1..Len(Unwrap(new_output)) : Ascending(Unwrap(new_output)[g].ids)

\* The ids as a sorted list.
RECURSIVE SortedIds(_)
SortedIds(set) ==
    IF set = {} THEN << >>
    ELSE LET least == CHOOSE x \in set : \A y \in set : x <= y
         IN << least >> \o SortedIds(set \ {least})

\* The groups with each id list sorted by AllocationId.
WithSortedIds(groups) ==
    [ g \in 1..Len(groups) |->
        [ backtrace |-> groups[g].backtrace, ids |-> SortedIds(Range(groups[g].ids)) ] ]

\* C12: two builds from the same input give the same backtraces, and for each
\* backtrace id lists that are identical once sorted by AllocationId (and of
\* the same length before), whatever split and merge order each build had.
C12_GroupDeterminism ==
    new_again # None =>
        /\ WithSortedIds(Unwrap(new_again)) = WithSortedIds(Unwrap(new_output))
        /\ \A g \in 1..Len(Unwrap(new_again)) :
             Len(Unwrap(new_again)[g].ids) = Len(Unwrap(new_output)[g].ids)

\* Two builds whose merges went differently: some group has its ids in two
\* different orders.
C12_Witness ==
    /\ new_again # None
    /\ new_again # new_output
    /\ Len(Unwrap(new_output)) >= 2

-----------------------------------------------------------------------------
(* Claims about the order of the groups *)

\* The sort keys of the groups, in their order.
KeysOf(groups) == [ g \in 1..Len(groups) |-> SortKeyOf(sort_key, groups[g]) ]

\* C13: for every sort key, the groups installed for Asc are in non-decreasing
\* order of the key; those installed for Dsc (from a build of their own) are
\* the groups installed for Asc in reverse: the same backtraces with the same
\* allocations, in non-increasing order of the key, which is the one
\* descending order when the keys are distinct.
C13_GroupOrdering ==
    /\ sort_asc # None =>
         \A i, j \in 1..Len(Unwrap(sort_asc)) :
             i < j => KeysOf(Unwrap(sort_asc))[i] <= KeysOf(Unwrap(sort_asc))[j]
    /\ sort_dsc # None =>
         \A i, j \in 1..Len(Unwrap(sort_dsc)) :
             i < j => KeysOf(Unwrap(sort_dsc))[i] >= KeysOf(Unwrap(sort_dsc))[j]
    /\ (sort_asc # None /\ sort_dsc # None) =>
         GroupsShown(Unwrap(sort_dsc)) = Reverse(GroupsShown(Unwrap(sort_asc)))

\* Both orders were built for three groups of which two have the same key, the
\* two builds differing in the order of the ids of a group.
C13_Witness ==
    /\ sort_asc # None
    /\ sort_dsc # None
    /\ Len(Unwrap(sort_asc)) = 3
    /\ Cardinality(Range(KeysOf(Unwrap(sort_asc)))) = 2
    /\ Unwrap(sort_dsc) # Reverse(Unwrap(sort_asc))

-----------------------------------------------------------------------------
(* Claims about filter preparation and matching *)

\* C14: with a scripted id set S, try_match is true exactly when the id is in
\* S and the compiled filter accepts the allocation, and the compiled filter is
\* not called for an id outside S; with no set, try_match is the compiled
\* filter's answer.
C14_CustomFilterComposition ==
    flt_match # None =>
        LET call == Unwrap(flt_match)
            prepared == Unwrap(flt_prepared).result.value
            structural == CompiledTryMatch(prepared.filter, Allocations[call.id])
        IN IF prepared.custom_filter # None
           THEN /\ call.result = (call.id \in Unwrap(prepared.custom_filter) /\ structural)
                /\ call.id \notin Unwrap(prepared.custom_filter) => call.compiled_calls = 0
           ELSE call.result = structural

\* try_match rejected, without asking the compiled filter, an id outside S that
\* the compiled filter accepts.
C14_Witness ==
    /\ flt_match # None
    /\ Unwrap(flt_prepared).result.value.custom_filter # None
    /\ Unwrap(flt_match).id \notin Unwrap(Unwrap(flt_prepared).result.value.custom_filter)
    /\ CompiledTryMatch(Unwrap(flt_prepared).result.value.filter,
                        Allocations[Unwrap(flt_match).id])
    /\ ~Unwrap(flt_match).result
    /\ Unwrap(flt_match).compiled_calls = 0

\* C15: with custom_filter = "", prepare_filter makes no script engine run and
\* returns what it returns with no custom filter: no id set is installed, and
\* try_match answers for every id as the filter prepared with no custom filter.
C15_EmptyCustomFilterIsAbsent ==
    (flt_custom = Some("") /\ flt_prepared # None) =>
        /\ Unwrap(flt_prepared).engine_runs = 0
        /\ Unwrap(flt_prepared).result.ok = TryPrepareRawFilter(flt_filter).ok
        /\ Unwrap(flt_prepared).result.ok =>
             /\ Unwrap(flt_prepared).result.value.custom_filter = None
             /\ Unwrap(flt_prepared).result.value.filter = PrepareRawFilter(flt_filter)
        /\ flt_match # None =>
             Unwrap(flt_match).result =
                 CompiledTryMatch(PrepareRawFilter(flt_filter), Allocations[Unwrap(flt_match).id])

\* A filter prepared with custom_filter = "" matched an allocation that the
\* script of the model does not list.
C15_Witness ==
    /\ flt_custom = Some("")
    /\ flt_match # None
    /\ Unwrap(flt_match).result
    /\ Unwrap(flt_match).id \notin Range(ScriptResult("only_first_backtraces"))

\* The regex fields of the wire filter whose pattern does not compile.
InvalidFields(filter) ==
    { f \in RegexFields : filter[f] # None /\ ~RegexNew(Unwrap(filter[f])).ok }

\* What C16 asks of the Result of a preparation, and of the response.
RejectsInvalidRegex(result) ==
    IF InvalidFields(flt_filter) = {}
    THEN result.ok \/ result.error.kind # "InvalidRegex"
    ELSE /\ ~result.ok
         /\ result.error.kind = "InvalidRegex"
         /\ result.error.field \in InvalidFields(flt_filter)
         /\ flt_response # None
         /\ Unwrap(flt_response).status = 400
         /\ result.error.field \in Range(Unwrap(flt_response).message)

\* C16: when a regex field does not compile, prepare_filter (through
\* prepare_raw_filter) and prepare_backtrace_filter return InvalidRegex naming
\* a field that is invalid, and no filter; the script engine is not run; the
\* handler answers 400 with the field's name in the message. When every regex
\* field compiles, no InvalidRegex is returned.
C16_RegexValidation ==
    /\ flt_prepared # None =>
         /\ RejectsInvalidRegex(Unwrap(flt_prepared).result)
         /\ InvalidFields(flt_filter) # {} => Unwrap(flt_prepared).engine_runs = 0
    /\ flt_backtrace # None => RejectsInvalidRegex(Unwrap(flt_backtrace))

\* A filter with a script and two invalid regex fields, not the first of
\* either function, was rejected by prepare_filter.
C16_Witness ==
    /\ flt_prepared # None
    /\ flt_custom = Some("only_first_backtraces")
    /\ InvalidFields(flt_filter) = { "source_regex", "negative_source_regex" }
    /\ flt_filter["function_regex"] # None
    /\ Unwrap(flt_response).status = 400

-----------------------------------------------------------------------------
(* Claims about match_backtrace *)

\* The text is there and the regex matches it.
Matches(regex, text) == text # None /\ IsMatch(regex, Unwrap(text))

\* The unmemoized reference: the depth is within the limits, some one frame
\* satisfies every positive regex that is set (or none is set), and no frame
\* matches a negative regex.
Reference(filter, backtrace) ==
    /\ Len(backtrace) >= filter.backtrace_depth_min
    /\ Len(backtrace) <= filter.backtrace_depth_max
    /\ \/ (filter.function_regex = None /\ filter.source_regex = None)
       \/ \E i \in 1..Len(backtrace) :
            /\ filter.function_regex # None =>
                 Matches(Unwrap(filter.function_regex), Frames[backtrace[i]].function)
            /\ filter.source_regex # None =>
                 Matches(Unwrap(filter.source_regex), Frames[backtrace[i]].source)
    /\ ~\E i \in 1..Len(backtrace) :
            \/ /\ filter.negative_function_regex # None
               /\ Matches(Unwrap(filter.negative_function_regex), Frames[backtrace[i]].function)
            \/ /\ filter.negative_source_regex # None
               /\ Matches(Unwrap(filter.negative_source_regex), Frames[backtrace[i]].source)

\* C17: every match_backtrace call returns what the unmemoized reference
\* gives for its backtrace, whatever the calls before it left in the caches.
C17_MemoizedMatchesReference ==
    bt_last # None =>
        Unwrap(bt_last).result = Reference(bt_filter, Unwrap(bt_last).backtrace)

\* A backtrace of two frames was accepted under a positive and a negative
\* regex, from caches that earlier calls on other backtraces had filled for
\* both frames.
C17_Witness ==
    /\ bt_last # None
    /\ Unwrap(bt_last).result
    /\ Len(Unwrap(bt_last).backtrace) = 2
    /\ bt_filter.function_regex # None
    /\ bt_filter.negative_function_regex # None
    /\ bt_calls = 3
    /\ bt_scanned = FrameIds
    /\ bt_evals <= 4

\* C18 as stated: the regex evaluations of the request are at most as many as
\* the unique frame ids of the scanned backtraces.
C18_EvaluationsAtMostFrames ==
    bt_evals <= Cardinality(bt_scanned)

\* The regexes the filter sets.
RegexCount(filter) ==
    Cardinality({ f \in RegexFields : filter[f] # None })

\* C18, amended: the regex evaluations of the request are at most as many as
\* the unique frame ids of the scanned backtraces times the regexes the filter
\* sets (each regex is evaluated at most once per frame id).
C18_EvaluationsAtMostFramesTimesRegexes ==
    bt_evals <= RegexCount(bt_filter) * Cardinality(bt_scanned)

\* A second call on a scanned backtrace made no evaluation, after the first
\* had made one per regex for its one frame.
C18_Witness ==
    /\ bt_calls >= 2
    /\ RegexCount(bt_filter) = 4
    /\ Cardinality(bt_scanned) = 1
    /\ bt_evals = 4

-----------------------------------------------------------------------------
(* Claims about get_fragmentation_timeline *)

\* The matched allocations live after the operations consumed so far.
LiveMatched == { a \in frag_live : is_matched(a) }

MinLiveStart == MinOf({ a.range.start : a \in LiveMatched })
MaxLiveEnd == Max({ a.range.end : a \in LiveMatched })

RECURSIVE SumOfSizes(_)
SumOfSizes(S) ==
    IF S = {} THEN 0
    ELSE LET a == CHOOSE b \in S : TRUE IN
         (a.range.end - a.range.start) + SumOfSizes(S \ {a})

\* C19: after every operation the tracked bounds are the smallest start and
\* the largest end of the live matched allocations, and the value of the last
\* point is (largest end - smallest start) - sum of the live sizes, 0 when
\* no matched allocation is live; no subtraction underflows.
C19_FragmentationValue ==
    /\ LiveMatched # {} =>
          /\ current_address_min = MinLiveStart
          /\ current_address_max = MaxLiveEnd
          /\ current_used_address_space = SumOfSizes(LiveMatched)
          /\ SumOfSizes(LiveMatched) <= MaxLiveEnd - MinLiveStart
          /\ fragmentation # << >>
          /\ fragmentation[Len(fragmentation)] =
                (MaxLiveEnd - MinLiveStart) - SumOfSizes(LiveMatched)
    /\ LiveMatched = {} =>
          /\ current_address_min = U64Max
          /\ current_address_max = 0
          /\ current_used_address_space = 0
          /\ fragmentation # << >> => fragmentation[Len(fragmentation)] = 0
    /\ \A i \in 1..Len(fragmentation) :
          fragmentation[i] >= 0 /\ fragmentation[i] <= MaxAddress

\* The allocation that held the lower bound was reallocated to another
\* place, and a gap is left between the two allocations now live.
C19_Witness ==
    /\ frag_last.op = "Reallocation"
    /\ frag_last.touched_min
    /\ Cardinality(LiveMatched) = 2
    /\ fragmentation[Len(fragmentation)] > 0

GapStep ==
    (xs' # xs /\ frag_x # U64Max /\ frag_x' > frag_x) =>
        LET p == frag_x
            t == frag_x'
            n == Len(xs)
            last == fragmentation[Len(fragmentation)]
        IN
        /\ SubSeq(xs', 1, n) = xs
        /\ SubSeq(fragmentation', 1, n) = fragmentation
        /\ Len(fragmentation') = Len(xs')
        /\ t - p >= 3 =>
              /\ Len(xs') = n + 3
              /\ xs'[n + 1] = (p + 1) * 1000
              /\ xs'[n + 2] = (t - 1) * 1000
              /\ xs'[n + 3] = t * 1000
              /\ fragmentation'[n + 1] = last
              /\ fragmentation'[n + 2] = last
        /\ t - p = 2 =>
              /\ Len(xs') = n + 2
              /\ xs'[n + 1] = (p + 1) * 1000
              /\ xs'[n + 2] = t * 1000
              /\ fragmentation'[n + 1] = last
        /\ t - p = 1 =>
              /\ Len(xs') = n + 1
              /\ xs'[n + 1] = t * 1000

\* C21: a matched operation of second t after a point of second p emits two
\* gap points, at p + 1 and t - 1, when t - p >= 3, one at p + 1 when
\* t = p + 2, none when t = p + 1; each gap point carries the final
\* fragmentation value of second p.
C21_GapHandling == [][GapStep]_vars

\* A second with a fragmentation above 0 was followed three seconds later
\* by an operation that changed the value: both gap points carry the old one.
C21_Witness ==
    /\ Len(xs) = 4
    /\ xs[2] = xs[1] + 1000
    /\ xs[3] = xs[1] + 2000
    /\ xs[4] = xs[1] + 3000
    /\ fragmentation[1] > 0
    /\ fragmentation[2] = fragmentation[1]
    /\ fragmentation[3] = fragmentation[1]
    /\ fragmentation[4] # fragmentation[1]

\* C22 as stated: every x is 1000 times the whole seconds between the start
\* of the capture and the operation that made the point.
C22_XsFromCaptureStart ==
    xs # << >> => xs[Len(xs)] = 1000 * (frag_x - initial_timestamp)

-----------------------------------------------------------------------------
(* Claims about capture resolution *)

C24_UnknownBacktraceNotFound ==
    (/\ res_backtrace # None
     /\ Unwrap(res_response).resolved.ok
     /\ Unwrap(res_backtrace).backtrace_id \notin StoredBacktraces)
        => (~Unwrap(res_backtrace).panicked /\ Unwrap(res_backtrace).status = 404)

-----------------------------------------------------------------------------
(* Claims about workers and the byte channel *)

WorkerEnded == ch_pc \in { "returned", "panicked" }

\* C25: once the receiver half is dropped the channel takes no further
\* chunk, and the worker of every worker-based handler ends: its next write
\* fails, and it is not left blocked on a full channel.
C25_Cancellation ==
    /\ [](ch_after_drop = 0)
    /\ (~ch_rx_alive ~> WorkerEnded)

\* The receiver was dropped while the worker had writes left and the buffer
\* was full, and the worker ended on the failed write.
C25_Witness ==
    /\ ~ch_rx_alive
    /\ ch_buffered = ChannelCapacity
    /\ ch_left > 0
    /\ ch_pc = "panicked"

-----------------------------------------------------------------------------
(* Claims about when the generated-file cache is purged *)

\* A step that takes the lock and runs purge_old_if_too_big.
PurgeStep == gen_lock = "free" /\ gen_lock' # "free"

\* C29 as stated: a purge at a total_size of at most 32 MiB, exactly 32 MiB
\* included, removes nothing.
C29_PurgeOnlyAboveHighWater ==
    [][(PurgeStep /\ total_size <= HighWater) => UNCHANGED << by_hash, total_size >>]_vars

\* C29, amended: a purge at a total_size below 32 MiB removes nothing and
\* leaves by_hash and total_size as they were; at 32 MiB or above it evicts
\* until total_size is at most 16 MiB.
C29_PurgeOnlyFromHighWater ==
    [][PurgeStep =>
        /\ total_size < HighWater => UNCHANGED << by_hash, total_size >>
        /\ total_size >= HighWater =>
              /\ total_size' <= LowWater
              /\ DOMAIN by_hash' # DOMAIN by_hash
              /\ DOMAIN by_hash' \subseteq DOMAIN by_hash]_vars

\* A purge found total_size at exactly 32 MiB and evicted.
C29_Witness ==
    /\ last_op.op = "purge"
    /\ last_op.pre_total = HighWater
    /\ last_op.evicted # {}

\* A step that runs add_file.
AddStep == run_files' = run_files + 1

\* C30 as stated: every add_file call comes right after a
\* purge_old_if_too_big call of the same lock acquisition.
C30_PurgeRightBeforeEveryAdd ==
    [][AddStep => (gen_lock # "free" /\ last_op.op = "purge")]_vars

\* C30, amended: every add_file call is made under a lock acquisition that
\* began with purge_old_if_too_big; in graph generation the purge comes right
\* before the add_file, in execute_script only add_file calls of the same
\* script come between the two.
C30_PurgeBeforeAdds ==
    [][AddStep =>
        /\ gen_lock # "free"
        /\ gen_lock = "graph" => (run_files = 0 /\ last_op.op = "purge")
        /\ gen_lock = "script" =>
              /\ run_files = 0 => last_op.op = "purge"
              /\ run_files > 0 => last_op.op = "add"]_vars

\* A script's second image was added right after its first.
C30_Witness ==
    /\ gen_lock = "script"
    /\ run_files = 2
    /\ last_op.op = "add"

-----------------------------------------------------------------------------
(* Claims about generate_regions *)

\* C28 as stated: the regions are ascending, disjoint and not touching, each
\* has start <= end, and the range of every matched allocation lies in
\* exactly one region.
C28_RegionsCoverMatched ==
    reg_output # None =>
        LET regions == Unwrap(reg_output) IN
        /\ \A i \in 1..Len(regions) : regions[i][1] <= regions[i][2]
        /\ \A i \in 1..(Len(regions) - 1) : regions[i][2] < regions[i + 1][1]
        /\ \A k \in 1..Len(reg_input) :
              Cardinality({ i \in 1..Len(regions) :
                  /\ regions[i][1] <= reg_input[k].start
                  /\ reg_input[k].end <= regions[i][2] }) = 1

-----------------------------------------------------------------------------
(* Claims about the locks *)

\* C26: no thread holds both mutexes at once; no thread holds either while it
\* builds or sorts groups, runs a script or writes bytes to a byte channel;
\* and while a request is under way some thread can take a step.
C26_LockPolicy ==
    /\ \A t \in Threads : ~(cache_mutex = Some(t) /\ generated_mutex = Some(t))
    /\ \A t \in Threads :
          lk_pc[t] \in { "build", "script", "write" } =>
              (cache_mutex # Some(t) /\ generated_mutex # Some(t))
    /\ \A t \in Threads : cache_mutex = Some(t) => lk_pc[t] \in { "get", "put" }
    /\ \A t \in Threads : generated_mutex = Some(t) => lk_pc[t] = "generated"
    /\ (\E t \in Threads : lk_pc[t] # "idle") => ENABLED LockNext

\* One thread waits for the generated-file mutex that the other holds, after
\* the holder ran its script.
C26_Witness ==
    /\ generated_mutex = Some(1)
    /\ lk_request[1] = "execute_script"
    /\ lk_pc[2] = "generated_wait"
    /\ lk_request[2] = "allocation_groups"
    /\ cache_mutex = None

-----------------------------------------------------------------------------
(* Claims about the shared AllocationGroups *)

\* C27: a cached AllocationGroups value never changes once it is put: every
\* shared object holds the groups it held when it was put, those are sorted
\* and reversed as its key asks, every cache entry points to an object built
\* for its key, and what a worker has read is a prefix of the value as put.
C27_CachedValueImmutable ==
    /\ \A p \in 1..Len(arc_heap) :
          /\ arc_heap[p].groups = arc_heap[p].installed
          /\ arc_heap[p].installed \in BuiltGroupsOf[arc_heap[p].request]
    /\ \A i \in 1..Len(arc_cache) :
          /\ arc_cache[i].value \in 1..Len(arc_heap)
          /\ AllocationGroupsKey(arc_heap[arc_cache[i].value].request) = arc_cache[i].key
    /\ \A t \in Threads :
          arc_pc[t] = "respond" =>
              /\ arc_shared[t] \in 1..Len(arc_heap)
              /\ arc_seen[t] = SubSeq(arc_heap[arc_shared[t]].installed, 1, Len(arc_seen[t]))

\* Both workers are reading the same cached object of two groups or more, put
\* by thread 1 in descending order and found in the cache by thread 2.
C27_Witness ==
    /\ arc_pc[1] = "respond"
    /\ arc_pc[2] = "respond"
    /\ arc_shared[1] # 0
    /\ arc_shared[1] = arc_shared[2]
    /\ Len(arc_heap[arc_shared[1]].groups) >= 2
    /\ AllocationGroupsKey(arc_heap[arc_shared[1]].request).order = "Dsc"
    /\ Len(arc_seen[1]) = 1
    /\ Len(arc_seen[2]) = 2

-----------------------------------------------------------------------------
(* Claims about the lowering of the lifetime *)

\* C31: for lifetime=OnlyDeallocatedInCurrentRange the deallocation window is
\* [max(alloc_from, dealloc_from), min(alloc_to, dealloc_to)], an absent lower
\* bound counting as 0 and an absent upper bound as the runtime of the capture;
\* both deallocation bounds are set, and nothing else changes. For
\* lifetime=All or absent the filter is left as it was.
C31_DeallocatedInCurrentRange ==
    call_input # None =>
        LET input == Unwrap(call_input)
            before == input.output
            after == Unwrap(call_output)
            arm == UnwrapOr(input.lifetime, "All")
            from == Max({ UnwrapOr(before.only_allocated_after_at_least, 0),
                          UnwrapOr(before.only_deallocated_after_at_least, 0) })
            to == MinOf({ UnwrapOr(before.only_allocated_until_at_most, input.runtime),
                          UnwrapOr(before.only_deallocated_until_at_most, input.runtime) })
        IN /\ arm = "OnlyDeallocatedInCurrentRange" =>
                after = [ before EXCEPT !.only_deallocated_after_at_least = Some(from),
                                        !.only_deallocated_until_at_most = Some(to) ]
           /\ arm = "All" => after = before

\* OnlyDeallocatedInCurrentRange was lowered for a window with both bounds
\* inside the capture, and for one with no bound.
C31_Witness ==
    /\ call_input # None
    /\ Unwrap(call_input).lifetime = Some("OnlyDeallocatedInCurrentRange")
    /\ Unwrap(call_input).output.only_allocated_after_at_least = Some(1)
    /\ Unwrap(call_input).output.only_allocated_until_at_most = Some(2)
    /\ Unwrap(call_input).runtime = 3
    /\ Unwrap(call_output).only_deallocated_after_at_least = Some(1)
    /\ Unwrap(call_output).only_deallocated_until_at_most = Some(2)

-----------------------------------------------------------------------------
(* Claims about get_allocation_group_data *)

\* C32: however the allocations of a non-empty group are split into pieces
\* and the pieces merged, the statistics are the true ones: the counts, the
\* sum of the sizes, the extremes of size and timestamp, and interval =
\* max_timestamp - min_timestamp; leaked_count <= allocated_count, min_size <=
\* max_size, min_timestamp <= max_timestamp; and the identity is neutral for
\* the reduce.
C32_GroupDataIndependentOfSplit ==
    call_input # None =>
        LET input == Unwrap(call_input)
            output == Unwrap(call_output)
            at == 1..Len(input)
            sizes == { input[i].size : i \in at }
            timestamps == { input[i].timestamp : i \in at }
            folded == GroupFoldWith(GroupDefault, input)
        IN /\ output.allocated_count = Len(input)
           /\ output.leaked_count = Cardinality({ i \in at : input[i].deallocation = None })
           /\ output.size = Sum([ i \in at |-> input[i].size ], at)
           /\ output.min_size = MinOf(sizes)
           /\ output.max_size = Max(sizes)
           /\ output.min_timestamp = MinOf(timestamps)
           /\ output.max_timestamp = Max(timestamps)
           /\ output.interval = Max(timestamps) - MinOf(timestamps)
           /\ output.leaked_count <= output.allocated_count
           /\ output.min_size <= output.max_size
           /\ output.min_timestamp <= output.max_timestamp
           /\ GroupReduce(GroupDefault, folded) = folded
           /\ GroupReduce(folded, GroupDefault) = folded

\* A group of three allocations that differ in size, instant and deallocation.
C32_Witness ==
    /\ call_input # None
    /\ Len(Unwrap(call_input)) = 3
    /\ Unwrap(call_output).leaked_count = 2
    /\ Unwrap(call_output).min_size = 1
    /\ Unwrap(call_output).max_size = 3
    /\ Unwrap(call_output).interval = 1

-----------------------------------------------------------------------------
(* Claims about the arena gate and the shape of the timeline *)

\* In the main arena, not mmaped, not jemalloc.
PassesArenaGate(a) ==
    a.flags.in_main_arena /\ ~a.flags.is_mmaped /\ ~a.flags.is_jemalloc

RangeSize(a) == a.range.end - a.range.start

\* The operation left the locals of the loop and the output as they were.
FragUntouched ==
    UNCHANGED << current_used_address_space, address_map, current_address_min,
                 current_address_max, xs, fragmentation >>

\* What one operation does, by the allocations it made live and the ones it
\* ended.
ArenaStep ==
    LET added == frag_live' \ frag_live
        removed == frag_live \ frag_live'
    IN
    /\ frag_last'.op = "Allocation" =>
          \A a \in added :
              /\ ~PassesArenaGate(a) => FragUntouched
              /\ PassesArenaGate(a) =>
                    /\ current_used_address_space' = current_used_address_space + RangeSize(a)
                    /\ xs' # << >>
    /\ frag_last'.op = "Deallocation" =>
          \A a \in removed :
              /\ ~PassesArenaGate(a) => FragUntouched
              /\ PassesArenaGate(a) =>
                    /\ current_used_address_space' = current_used_address_space - RangeSize(a)
                    /\ xs' # << >>
    /\ frag_last'.op = "Reallocation" =>
          \A old \in removed, new \in added :
              /\ (~PassesArenaGate(old) /\ ~PassesArenaGate(new)) => FragUntouched
              /\ (PassesArenaGate(old) \/ PassesArenaGate(new)) =>
                    /\ current_used_address_space' =
                          current_used_address_space
                            - (IF PassesArenaGate(old) THEN RangeSize(old) ELSE 0)
                            + (IF PassesArenaGate(new) THEN RangeSize(new) ELSE 0)
                    /\ xs' # << >>
                    /\ ~PassesArenaGate(new) =>
                          \A address \in DOMAIN address_map' :
                              address \in DOMAIN address_map
                              /\ address_map'[address] <= address_map[address]
                    /\ ~PassesArenaGate(old) =>
                          \A address \in DOMAIN address_map :
                              address \in DOMAIN address_map'
                              /\ address_map'[address] >= address_map[address]

\* C33: an allocation or deallocation of an allocation outside the main
\* arena, mmaped or of jemalloc changes neither the used bytes, the address
\* map, the bounds nor the output; a reallocation takes the old range out
\* only if the old allocation passes the gate, puts the new range in only if
\* the new one passes, and changes nothing only when neither passes.
C33_ArenaGating == [][ArenaStep]_vars

\* A matched allocation was reallocated into an allocation that does not pass
\* the gate: its range was taken out, nothing was put in, a point was made.
C33_Witness ==
    /\ frag_last.op = "Reallocation"
    /\ frag_ops = 2
    /\ Cardinality(frag_live) = 1
    /\ \A a \in frag_live : a.flags.is_jemalloc
    /\ current_used_address_space = 0
    /\ Len(xs) >= 2

\* The fragmentation the locals of the loop give after the step.
ValueAfter ==
    (IF current_address_max' = 0 THEN 0 ELSE current_address_max' - current_address_min')
        - current_used_address_space'

\* A matched operation was consumed: it changed a local or the output.
Recorded ==
    ~UNCHANGED << address_map, current_used_address_space, frag_x, xs, fragmentation >>

\* What a matched operation of a chronological stream does to the output: the
\* last point is the one of its second and carries the value after it; an
\* operation of the second of the last point adds no point, and one of a later
\* second leaves the points made so far as they are.
ShapeStep ==
    (Recorded /\ frag_chronological') =>
        /\ xs'[Len(xs')] = frag_x' * 1000
        /\ fragmentation'[Len(fragmentation')] = ValueAfter
        /\ frag_x' = frag_x =>
              /\ xs' = xs
              /\ SubSeq(fragmentation', 1, Len(xs) - 1) = SubSeq(fragmentation, 1, Len(xs) - 1)
        /\ frag_x' # frag_x =>
              /\ SubSeq(xs', 1, Len(xs)) = xs
              /\ SubSeq(fragmentation', 1, Len(xs)) = fragmentation
              /\ \A i \in 1..Len(xs) : xs[i] < frag_x' * 1000

\* C34: xs and fragmentation have the same length; for a stream of
\* non-decreasing timestamps xs is strictly increasing, each second with a
\* matched operation has exactly one point, and that point holds the
\* fragmentation after the last matched operation of the second.
C34_OutputShape ==
    /\ [](/\ Len(xs) = Len(fragmentation)
          /\ frag_chronological =>
                /\ \A i, j \in 1..Len(xs) : i < j => xs[i] < xs[j]
                /\ frag_x # U64Max => xs[Len(xs)] = frag_x * 1000)
    /\ [][ShapeStep]_vars

\* Two matched allocations of one second that leave a gap between them, then
\* an operation of the next second: two points, the first with the value
\* after the second allocation.
C34_Witness ==
    /\ frag_ops = 3
    /\ frag_chronological
    /\ Len(xs) = 2
    /\ xs[2] = xs[1] + 1000
    /\ fragmentation[1] > 0

-----------------------------------------------------------------------------
(* Claims about get_allocations *)

\* C35: total_count is the number of allocations the filter matches, whatever
\* skip, count and order are; the streamed list is the matching ids of the
\* chosen index, reversed for Dsc, without the first `skip` and cut to
\* `count`, so that its length is min(count, max(0, total_count - skip)); and
\* the full Dsc list is the reverse of the full Asc list.
C35_Pagination ==
    call_input # None =>
        LET params == Unwrap(call_input).params
            filter == Unwrap(call_input).filter
            output == Unwrap(call_output)
            index == PrefilteredAllocationIds(UnwrapOr(params.sort_by, "Timestamp"))
            matching == SelectSeq(index, LAMBDA id : TryMatch(filter, id, Allocations[id]))
            ordered == IF params.order = Some("Dsc") THEN Reverse(matching) ELSE matching
            skip == UnwrapOr(params.skip, 0)
            total == Cardinality({ id \in AllocationIds : TryMatch(filter, id, Allocations[id]) })
            left == IF total - skip > 0 THEN total - skip ELSE 0
            kept == IF params.count # None /\ Unwrap(params.count) < left
                    THEN Unwrap(params.count) ELSE left
        IN /\ output.total_count = total
           /\ output.allocations = [ i \in 1..kept |-> ordered[skip + i] ]
           /\ Len(output.allocations) = kept
           /\ AllocationsIter(index, "Dsc", filter) = Reverse(AllocationsIter(index, "Asc", filter))

\* A page of two out of the three allocations after the first, of four that
\* match, in descending order of size.
C35_Witness ==
    /\ call_input # None
    /\ Unwrap(call_input).params.order = Some("Dsc")
    /\ Unwrap(call_input).params.sort_by = Some("Size")
    /\ Unwrap(call_input).params.skip = Some(1)
    /\ Unwrap(call_input).params.count = Some(2)
    /\ Unwrap(call_output).total_count = 4
    /\ Unwrap(call_output).allocations = << 1, 4 >>

-----------------------------------------------------------------------------
(* Claims about the bookkeeping of the generated-file cache *)

\* C36: after any sequence of add_file and purge_old_if_too_big calls,
\* total_size is the sum of the byte lengths of the entries in by_hash, every
\* entry is stored under its own hash, and total_size is never below 0.
C36_Bookkeeping ==
    /\ total_size = Sum([ h \in DOMAIN by_hash |-> by_hash[h].len ], DOMAIN by_hash)
    /\ \A h \in DOMAIN by_hash : by_hash[h].hash = h
    /\ total_size >= 0

\* A purge has evicted some entries and left others, and files were added
\* since, one of them under a hash that was present.
C36_Witness ==
    /\ last_op.op = "add"
    /\ last_op.present
    /\ max_evicted >= 0
    /\ Cardinality(DOMAIN by_hash) >= 2
    /\ total_size > LowWater

-----------------------------------------------------------------------------
(* Claims about the loading of the captures *)

\* The input files whose id no earlier input file has, in the order of the
\* input list.
FirstOfTheirId(n) ==
    SelectSeq([ file \in 1..n |-> file ],
              LAMBDA file : \A earlier \in 1..(file - 1) : ld_inputs[earlier] # ld_inputs[file])

\* C37: in parallel as in sequence, the captures are registered in the order
\* of the input list, whatever the order the loader threads finish in: after
\* n registrations data_ids holds the ids of the first n inputs in the order
\* of their first occurrence, without duplicates, the capture kept for an id
\* is the one of the first input with that id, and data_ids holds exactly the
\* keys of the capture map; so the capture registered last is the same.
C37_RegistrationOrder ==
    LET n == Cardinality(ld_joined)
        first == FirstOfTheirId(n)
    IN /\ ld_joined = 1..n
       /\ ld_data_ids = [ i \in 1..Len(first) |-> ld_inputs[first[i]] ]
       /\ \A i \in 1..Len(first) : ld_data[ld_inputs[first[i]]] = first[i]
       /\ Range(ld_data_ids) = DOMAIN ld_data
       /\ \A i, j \in 1..Len(ld_data_ids) : i # j => ld_data_ids[i] # ld_data_ids[j]

\* Three inputs loaded in parallel, the third a second capture of the id of the
\* first; the threads finished in the reverse order of the inputs.
C37_Witness ==
    /\ ld_pc = "serving"
    /\ ld_parallel
    /\ ld_finished = << 3, 2, 1 >>
    /\ ld_inputs[3] = ld_inputs[1]
    /\ ld_inputs[2] # ld_inputs[1]
    /\ ld_data_ids = << ld_inputs[1], ld_inputs[2] >>

-----------------------------------------------------------------------------
(* Claims about the rejected allocation_groups requests *)

\* A step that rejects a request.
Rejects == rej_count' = rej_count + 1

\* C38: an allocation_groups request that fails with an unknown capture, a
\* malformed query string, an invalid regex or a failing custom-filter script
\* is answered with its error before the group cache is touched: the step
\* leaves the entries of the cache and their recency order as they were, runs
\* no operation on the cache, and spawns no worker.
C38_RejectedLeavesCache ==
    [][Rejects =>
        /\ rej_response' # None
        /\ cache' = cache
        /\ recent' = recent
        /\ cache_op' = cache_op
        /\ gpc' = gpc
        /\ res_spawned' = res_spawned]_vars

\* A request was rejected for its invalid regex while the cache holds two
\* entries, the entry of the parameters it was sent with not being the most
\* recently used one.
C38_Witness ==
    /\ rej_count = 1
    /\ Unwrap(rej_response).line = 938
    /\ Len(cache) >= 2
    /\ cache[2].key = AllocationGroupsKey(Request(AllocFilter(None, None, None), None, None, None))

-----------------------------------------------------------------------------
(* Claims about handler_backtraces *)

\* C39: in a /backtraces response written to its end, total_count, which
\* the first pass computes, is the number of backtraces the streaming pass
\* emits from the copies of the caches the first pass filled, and the two
\* passes accept the same backtraces in the same order: the ones the
\* unmemoized matcher accepts, in the order of the capture.
C39_CountMatchesStream ==
    call_output # None =>
        LET input == Unwrap(call_input)
            output == Unwrap(call_output)
        IN /\ output.total_count = Len(output.backtraces)
           /\ output.counted = output.backtraces
           /\ output.backtraces =
                SelectSeq([ i \in 1..Len(input.all) |-> i ],
                          LAMBDA i : Reference(input.filter, input.all[i]))

\* Under a positive and a negative regex the capture has an accepted and a
\* refused backtrace, and the first pass left a verdict for every frame of
\* the model in both caches: the streaming pass decides from the copies.
C39_Witness ==
    /\ call_output # None
    /\ Unwrap(call_input).filter.function_regex # None
    /\ Unwrap(call_input).filter.negative_function_regex # None
    /\ Len(Unwrap(call_input).all) = 2
    /\ Unwrap(call_output).total_count = 1
    /\ Unwrap(call_output).backtraces = << 2 >>
    /\ DOMAIN Unwrap(call_output).negative_cache = FrameIds
    /\ DOMAIN Unwrap(call_output).positive_cache # {}

-----------------------------------------------------------------------------
(* Claims about racing allocation_groups requests *)

\* The cache and the handlers point to values built for their keys.
RacePointers ==
    /\ Len(rc_cache) <= 4
    /\ \A i, j \in 1..Len(rc_cache) : rc_cache[i].key = rc_cache[j].key => i = j
    /\ \A i \in 1..Len(rc_cache) :
          /\ rc_cache[i].value \in 1..Len(rc_heap)
          /\ AllocationGroupsKey(rc_heap[rc_cache[i].value].request) = rc_cache[i].key
    /\ \A t \in Threads :
          rc_pc[t] = "respond" =>
              /\ rc_shared[t] \in 1..Len(rc_heap)
              /\ AllocationGroupsKey(rc_heap[rc_shared[t]].request)
                   = AllocationGroupsKey(Unwrap(rc_request[t]))
              /\ rc_heap[rc_shared[t]].groups \in BuiltGroupsOf[Unwrap(rc_request[t])]

\* Handlers of one key hold the same sequence of groups, the one every build
\* for the request gives.
RaceSameGroups ==
    /\ \A t, u \in Threads :
          ( /\ rc_pc[t] = "respond"
            /\ rc_pc[u] = "respond"
            /\ AllocationGroupsKey(Unwrap(rc_request[t])) = AllocationGroupsKey(Unwrap(rc_request[u])) )
          => GroupsShown(rc_heap[rc_shared[t]].groups) = GroupsShown(rc_heap[rc_shared[u]].groups)
    /\ \A t \in Threads :
          rc_pc[t] = "respond" =>
              \A groups \in BuiltGroupsOf[Unwrap(rc_request[t])] :
                  GroupsShown(rc_heap[rc_shared[t]].groups) = GroupsShown(groups)

\* A put installs the handler's own value as the entry of its key, and no
\* step changes a value that was built or moves a handler to another value.
RaceStep ==
    /\ SubSeq(rc_heap', 1, Len(rc_heap)) = rc_heap
    /\ \A t \in Threads :
          /\ (rc_pc[t] = "build" /\ rc_pc'[t] = "respond") =>
                /\ Len(rc_heap') = Len(rc_heap) + 1
                /\ rc_shared'[t] = Len(rc_heap')
                /\ rc_cache'[1] = [ key |-> AllocationGroupsKey(Unwrap(rc_request[t])),
                                    value |-> rc_shared'[t] ]
          /\ (rc_pc[t] = "respond" /\ rc_pc'[t] = "respond") => rc_shared'[t] = rc_shared[t]

\* C40: when requests of one key both miss each builds its own value and both
\* puts succeed, the second replacing the entry of the first; the cache
\* holds one entry per key and at most 4 entries; the requests come to the
\* same sequence of groups (the same backtraces in the same order, the same
\* allocations in each); and each request goes on with the value it built or
\* fetched, which stays as it was, when the cache has replaced or evicted
\* the entry.
C40_RacingMisses ==
    /\ [](RacePointers /\ RaceSameGroups)
    /\ [][RaceStep]_vars

\* Both handlers missed the same key and put the value they built, the two
\* values holding the allocations of a group in different orders; the cache
\* holds the second, the first handler still has its own.
C40_Witness ==
    /\ rc_pc[1] = "respond"
    /\ rc_pc[2] = "respond"
    /\ AllocationGroupsKey(Unwrap(rc_request[1])) = AllocationGroupsKey(Unwrap(rc_request[2]))
    /\ rc_shared[2] = rc_shared[1] + 1
    /\ rc_heap[rc_shared[1]].groups # rc_heap[rc_shared[2]].groups
    /\ rc_cache[1].value = rc_shared[2]
    /\ \A i \in 1..Len(rc_cache) : rc_cache[i].value # rc_shared[1]
    /\ Len(rc_cache) = 4


\* A worker is using a value whose entry the cache has evicted: the cache is
\* full of other keys.
EvictedInUse ==
    \E t \in Threads :
        /\ rc_pc[t] = "respond"
        /\ Len(rc_cache) = 4
        /\ AllocationGroupsKey(Unwrap(rc_request[t])) \notin CachedKeys(rc_cache)

====
